---------------------------- MODULE Spec2Model ----------------------------
(***************************************************************************)
(* Key-material translation layer of MAKS11060/crypto over the WebCrypto   *)
(* provider: exportKey / importKey / importKeyPair / generateKeyPair /     *)
(* generateAesSecret / jwkAlgorithm, with the byte and text encodings they *)
(* use and the part of the provider (crypto.subtle) they call.             *)
(*                                                                         *)
(* Bytes are sequences of 0..255.  Text that carries key material (hex,    *)
(* base64url) is a sequence of character codes; the short strings that the *)
(* code slices (JWK "alg") are sequences of one-character strings.         *)
(* An optional field is a sequence of length 0 (absent) or 1 (present).    *)
(***************************************************************************)
EXTENDS Integers, Sequences, FiniteSets, TLC

VARIABLES held, last, env

vars == <<held, last, env>>

(***************************************************************************)
(* Bounds of the model.                                                    *)
(***************************************************************************)
NumSeeds == 1
MaxOps == 2

Seeds == 1..NumSeeds

None == <<>>
Some(v) == <<v>>
Has(o) == Len(o) > 0
Get(o) == o[1]

(***************************************************************************)
(* Values that cross the API: bytes, text, a JWK, a key handle, a pair.    *)
(***************************************************************************)
Undefined == [kind |-> "undefined", data |-> <<>>]
BytesV(b) == [kind |-> "bytes", data |-> b]
TextV(t) == [kind |-> "text", data |-> t]
JwkV(j) == [kind |-> "jwk", data |-> j]
KeyV(k) == [kind |-> "key", data |-> k]
PairV(priv, pub) == [kind |-> "pair", data |-> [privateKey |-> priv, publicKey |-> pub]]
ExportedPairV(priv, pub) ==
  [kind |-> "exportedPair", data |-> [privateKey |-> priv, publicKey |-> pub]]

Ok(v, calls) == [ok |-> TRUE, value |-> v, err |-> "", calls |-> calls]
Fail(e, calls) == [ok |-> FALSE, value |-> Undefined, err |-> e, calls |-> calls]

(***************************************************************************)
(* Error kinds.  The code throws plain Error objects; the kind is read off *)
(* the message it builds.                                                  *)
(***************************************************************************)
InvalidKeyLength == "InvalidKeyLength"
UnsupportedAlgorithm == "UnsupportedAlgorithm"
UnsupportedFormatForAlgorithm == "UnsupportedFormatForAlgorithm"
MalformedEncoding == "MalformedEncoding"
UnsupportedCurve == "UnsupportedCurve"
UnsupportedKeyType == "UnsupportedKeyType"
MissingAlgorithmHint == "MissingAlgorithmHint"
TypeErrorUndefined == "TypeError"
RangeErrorLength == "RangeError"
ProviderDataError == "provider:DataError"
ProviderSyntaxError == "provider:SyntaxError"
ProviderInvalidAccess == "provider:InvalidAccessError"
ProviderNotSupported == "provider:NotSupportedError"

(***************************************************************************)
(* @std/encoding/hex                                                       *)
(***************************************************************************)
HexChar(v) == IF v < 10 THEN 48 + v ELSE 87 + v

encodeHex(b) ==
  [k \in 1..(2 * Len(b)) |->
     HexChar(IF k % 2 = 1 THEN b[(k + 1) \div 2] \div 16 ELSE b[k \div 2] % 16)]

HexVal(c) ==
  IF c \in 48..57 THEN c - 48
  ELSE IF c \in 97..102 THEN c - 87
  ELSE IF c \in 65..70 THEN c - 55
  ELSE -1

HexValid(t) == Len(t) % 2 = 0 /\ \A k \in 1..Len(t) : HexVal(t[k]) >= 0

decodeHex(t) ==
  [i \in 1..(Len(t) \div 2) |-> 16 * HexVal(t[2 * i - 1]) + HexVal(t[2 * i])]

(***************************************************************************)
(* @std/encoding/base64url (unpadded)                                      *)
(***************************************************************************)
B64Char(v) ==
  IF v < 26 THEN 65 + v
  ELSE IF v < 52 THEN 97 + (v - 26)
  ELSE IF v < 62 THEN 48 + (v - 52)
  ELSE IF v = 62 THEN 45
  ELSE 95

B64Val(c) ==
  IF c \in 65..90 THEN c - 65
  ELSE IF c \in 97..122 THEN c - 97 + 26
  ELSE IF c \in 48..57 THEN c - 48 + 52
  ELSE IF c = 45 THEN 62
  ELSE IF c = 95 THEN 63
  ELSE -1

ByteAt(b, i) == IF i <= Len(b) THEN b[i] ELSE 0

encodeBase64Url(b) ==
  [k \in 1..((4 * Len(b) + 2) \div 3) |->
     LET g == (k - 1) \div 4
         p == (k - 1) % 4
         b0 == ByteAt(b, 3 * g + 1)
         b1 == ByteAt(b, 3 * g + 2)
         b2 == ByteAt(b, 3 * g + 3)
     IN B64Char(CASE p = 0 -> b0 \div 4
                  [] p = 1 -> (b0 % 4) * 16 + b1 \div 16
                  [] p = 2 -> (b1 % 16) * 4 + b2 \div 64
                  [] OTHER -> b2 % 64)]

B64Valid(t) == Len(t) % 4 # 1 /\ \A k \in 1..Len(t) : B64Val(t[k]) >= 0

CharAt(t, i) == IF i <= Len(t) THEN B64Val(t[i]) ELSE 0

decodeBase64Url(t) ==
  [i \in 1..((3 * Len(t)) \div 4) |->
     LET g == (i - 1) \div 3
         q == (i - 1) % 3
         c0 == CharAt(t, 4 * g + 1)
         c1 == CharAt(t, 4 * g + 2)
         c2 == CharAt(t, 4 * g + 3)
         c3 == CharAt(t, 4 * g + 4)
     IN CASE q = 0 -> c0 * 4 + c1 \div 16
          [] q = 1 -> (c1 % 16) * 16 + c2 \div 4
          [] OTHER -> (c2 % 4) * 64 + c3]

(***************************************************************************)
(* @std/bytes/concat and Uint8Array.prototype.slice                        *)
(***************************************************************************)
concat(a, b) == a \o b
slice(b, from, to) == SubSeq(b, from + 1, IF to < Len(b) THEN to ELSE Len(b))
sliceFrom(b, from) == SubSeq(b, from + 1, Len(b))


(***************************************************************************)
(* The runtime the library is loaded in.  isDeno is 'Deno' in globalThis;  *)
(* jwkX25519 tells whether the provider exports an X25519 private key as a *)
(* JWK (the runtimes differ in that).                                      *)
(***************************************************************************)
Env(isDeno, jwkX25519) == [isDeno |-> isDeno, jwkX25519 |-> jwkX25519]

Envs == {Env(d, j) : d \in BOOLEAN, j \in BOOLEAN}

FullEnv == Env(FALSE, TRUE)

(***************************************************************************)
(* Algorithm descriptors and key handles (CryptoKey) of the provider.      *)
(***************************************************************************)
Descriptor(name, namedCurve, hash, length) ==
  [name |-> name, namedCurve |-> namedCurve, hash |-> hash, length |-> length]

Handle(type, extractable, algorithm, usages, x, y, d, k) ==
  [type |-> type, extractable |-> extractable, algorithm |-> algorithm,
   usages |-> usages, x |-> x, y |-> y, d |-> d, k |-> k]

EmptyJwk ==
  [kty |-> None, crv |-> None, alg |-> None, x |-> None, y |-> None,
   d |-> None, k |-> None, key_ops |-> None, use |-> None, ext |-> None]

EcCurves == {"P-256", "P-384", "P-521"}
OkpCurves == {"Ed25519", "X25519"}
RsaNames == {"RSASSA-PKCS1-v1_5", "RSA-PSS"}
AesNames == {"AES-GCM", "AES-CBC", "AES-CTR", "AES-KW"}

\* Width in bytes of one coordinate (and of the private scalar) of a curve.
FieldLen(crv) ==
  CASE crv = "P-256" -> 32
    [] crv = "P-384" -> 48
    [] crv = "P-521" -> 66
    [] OTHER -> 32

CurveOf(algorithm) ==
  IF algorithm.name \in {"ECDSA", "ECDH"} THEN algorithm.namedCurve ELSE algorithm.name

\* Key material of a generated key: the provider draws it at random; the
\* model draws it from a family indexed by a seed.
Buf(len, seed, salt) == [i \in 1..len |-> (37 * seed + 101 * salt + 7 * i) % 256]

FilterUsages(usages, allowed) == SelectSeq(usages, LAMBDA u : u \in allowed)

Range(s) == {s[i] : i \in 1..Len(s)}

PrivateUsages(name) ==
  CASE name \in {"ECDSA", "Ed25519"} \cup RsaNames -> {"sign"}
    [] name \in {"X25519", "ECDH"} -> {"deriveKey", "deriveBits"}
    [] OTHER -> {}

PublicUsages(name) ==
  CASE name \in {"ECDSA", "Ed25519"} \cup RsaNames -> {"verify"}
    [] OTHER -> {}

SecretUsages(name) ==
  CASE name = "AES-KW" -> {"wrapKey", "unwrapKey"}
    [] name \in AesNames -> {"encrypt", "decrypt", "wrapKey", "unwrapKey"}
    [] name = "HMAC" -> {"sign", "verify"}
    [] OTHER -> {}

JwkAlgName(algorithm) ==
  CASE algorithm.name = "RSASSA-PKCS1-v1_5" /\ algorithm.hash = "SHA-1" -> <<"R", "S", "1">>
    [] algorithm.name = "RSASSA-PKCS1-v1_5" /\ algorithm.hash = "SHA-256" -> <<"R", "S", "2", "5", "6">>
    [] algorithm.name = "RSASSA-PKCS1-v1_5" /\ algorithm.hash = "SHA-384" -> <<"R", "S", "3", "8", "4">>
    [] algorithm.name = "RSASSA-PKCS1-v1_5" /\ algorithm.hash = "SHA-512" -> <<"R", "S", "5", "1", "2">>
    [] algorithm.name = "RSA-PSS" /\ algorithm.hash = "SHA-1" -> <<"P", "S", "1">>
    [] algorithm.name = "RSA-PSS" /\ algorithm.hash = "SHA-256" -> <<"P", "S", "2", "5", "6">>
    [] algorithm.name = "RSA-PSS" /\ algorithm.hash = "SHA-384" -> <<"P", "S", "3", "8", "4">>
    [] algorithm.name = "RSA-PSS" /\ algorithm.hash = "SHA-512" -> <<"P", "S", "5", "1", "2">>
    [] algorithm.name \in AesNames ->
         <<"A">>
         \o (CASE algorithm.length = 128 -> <<"1", "2", "8">>
               [] algorithm.length = 192 -> <<"1", "9", "2">>
               [] OTHER -> <<"2", "5", "6">>)
         \o (CASE algorithm.name = "AES-GCM" -> <<"G", "C", "M">>
               [] algorithm.name = "AES-CBC" -> <<"C", "B", "C">>
               [] algorithm.name = "AES-CTR" -> <<"C", "T", "R">>
               [] OTHER -> <<"K", "W">>)
    [] OTHER -> <<>>

(***************************************************************************)
(* crypto.subtle.generateKey                                               *)
(***************************************************************************)
GenerateCall(algorithm, extractable, usages) ==
  [fn |-> "generateKey", algorithm |-> algorithm, extractable |-> extractable,
   usages |-> usages]

ProviderGenerateKey(algorithm, extractable, usages, seed) ==
  LET name == algorithm.name
      call == <<GenerateCall(algorithm, extractable, usages)>>
      crv == CurveOf(algorithm)
      n == FieldLen(crv)
      x == Buf(n, seed, 1)
      y == IF name \in {"ECDSA", "ECDH"} THEN Buf(n, seed, 2) ELSE <<>>
      d == Buf(n, seed, 3)
  IN CASE name \in {"ECDSA", "ECDH", "Ed25519", "X25519"} \cup RsaNames ->
            IF name \in {"ECDSA", "ECDH"} /\ crv \notin EcCurves
            THEN Fail(ProviderNotSupported, call)
            ELSE IF ~(Range(usages) \subseteq (PrivateUsages(name) \cup PublicUsages(name)))
            THEN Fail(ProviderSyntaxError, call)
            ELSE IF FilterUsages(usages, PrivateUsages(name)) = <<>>
            THEN Fail(ProviderSyntaxError, call)
            ELSE Ok(PairV(Handle("private", extractable, algorithm,
                                 FilterUsages(usages, PrivateUsages(name)), x, y, d, <<>>),
                          Handle("public", TRUE, algorithm,
                                 FilterUsages(usages, PublicUsages(name)), x, y, <<>>, <<>>)),
                    call)
       [] name \in AesNames \cup {"HMAC"} ->
            IF ~(Range(usages) \subseteq SecretUsages(name)) \/ usages = <<>>
            THEN Fail(ProviderSyntaxError, call)
            ELSE IF name \in AesNames /\ algorithm.length \notin {128, 192, 256}
            THEN Fail(ProviderNotSupported, call)
            ELSE Ok(KeyV(Handle("secret", extractable, algorithm, usages, <<>>, <<>>, <<>>,
                                Buf(IF name = "HMAC" THEN 64 ELSE algorithm.length \div 8,
                                    seed, 4))),
                    call)
       [] OTHER -> Fail(ProviderNotSupported, call)

(***************************************************************************)
(* crypto.subtle.exportKey('jwk', key)                                     *)
(***************************************************************************)
ExportCall(format, key) == [fn |-> "exportKey", format |-> format, key |-> key]

KeyJwk(key) ==
  LET name == key.algorithm.name
      base == [EmptyJwk EXCEPT !.key_ops = Some(key.usages), !.ext = Some(key.extractable)]
  IN CASE name \in {"ECDSA", "ECDH"} ->
            [base EXCEPT !.kty = Some("EC"), !.crv = Some(key.algorithm.namedCurve),
                         !.x = Some(encodeBase64Url(key.x)),
                         !.y = Some(encodeBase64Url(key.y)),
                         !.d = IF key.type = "private"
                               THEN Some(encodeBase64Url(key.d)) ELSE None]
       [] name \in {"Ed25519", "X25519"} ->
            [base EXCEPT !.kty = Some("OKP"), !.crv = Some(name),
                         !.x = Some(encodeBase64Url(key.x)),
                         !.d = IF key.type = "private"
                               THEN Some(encodeBase64Url(key.d)) ELSE None]
       [] name \in RsaNames ->
            [base EXCEPT !.kty = Some("RSA"), !.alg = Some(JwkAlgName(key.algorithm)),
                         !.x = Some(encodeBase64Url(key.x)),
                         !.d = IF key.type = "private"
                               THEN Some(encodeBase64Url(key.d)) ELSE None]
       [] name \in AesNames ->
            [base EXCEPT !.kty = Some("oct"), !.alg = Some(JwkAlgName(key.algorithm)),
                         !.k = Some(encodeBase64Url(key.k))]
       [] OTHER ->
            [base EXCEPT !.kty = Some("oct"), !.k = Some(encodeBase64Url(key.k))]

ProviderExportJwk(key) ==
  IF ~key.extractable
  THEN Fail(ProviderInvalidAccess, <<ExportCall("jwk", key)>>)
  ELSE IF key.algorithm.name = "X25519" /\ key.type = "private" /\ ~env.jwkX25519
  THEN Fail(ProviderNotSupported, <<ExportCall("jwk", key)>>)
  ELSE Ok(JwkV(KeyJwk(key)), <<ExportCall("jwk", key)>>)

(***************************************************************************)
(* crypto.subtle.importKey('jwk', jwk, algorithm, extractable, usages)     *)
(***************************************************************************)
ImportCall(jwk, algorithm, extractable, usages) ==
  [fn |-> "importKey", format |-> "jwk", jwk |-> jwk, algorithm |-> algorithm,
   extractable |-> extractable, usages |-> usages]

CoordOk(field, len) ==
  Has(field) /\ B64Valid(Get(field)) /\ Len(decodeBase64Url(Get(field))) = len

ProviderImportJwk(jwk, algorithm, extractable, usages) ==
  LET name == algorithm.name
      call == <<ImportCall(jwk, algorithm, extractable, usages)>>
      isEc == name \in {"ECDSA", "ECDH"}
      isCurve == name \in {"ECDSA", "ECDH", "Ed25519", "X25519"}
      isRsa == name \in RsaNames
      isAes == name \in AesNames
      isSecret == name \in AesNames \cup {"HMAC"}
      crv == CurveOf(algorithm)
      n == FieldLen(crv)
      private == ~isSecret /\ Has(jwk.d)
      allowed == IF isSecret THEN SecretUsages(name)
                 ELSE IF private THEN PrivateUsages(name) ELSE PublicUsages(name)
      kty == CASE isEc -> "EC" [] isCurve -> "OKP" [] isRsa -> "RSA" [] OTHER -> "oct"
  IN IF ~(isCurve \/ isRsa \/ isSecret)
     THEN Fail(ProviderNotSupported, call)
     ELSE IF ~(Range(usages) \subseteq allowed)
     THEN Fail(ProviderSyntaxError, call)
     ELSE IF jwk.kty # Some(kty)
     THEN Fail(ProviderDataError, call)
     ELSE IF Has(jwk.key_ops) /\ ~(Range(usages) \subseteq Range(Get(jwk.key_ops)))
     THEN Fail(ProviderDataError, call)
     ELSE IF jwk.ext = Some(FALSE) /\ extractable
     THEN Fail(ProviderDataError, call)
     ELSE IF isCurve /\ (jwk.crv # Some(crv) \/ (isEc /\ crv \notin EcCurves))
     THEN Fail(ProviderDataError, call)
     ELSE IF (isRsa \/ isAes) /\ Has(jwk.alg) /\ Get(jwk.alg) # JwkAlgName(algorithm)
     THEN Fail(ProviderDataError, call)
     ELSE IF isCurve /\ (~CoordOk(jwk.x, n)
                         \/ (isEc /\ ~CoordOk(jwk.y, n))
                         \/ (private /\ ~CoordOk(jwk.d, n)))
     THEN Fail(ProviderDataError, call)
     ELSE IF isRsa /\ (~Has(jwk.x) \/ (private /\ ~B64Valid(Get(jwk.d))))
     THEN Fail(ProviderDataError, call)
     ELSE IF isSecret /\ (~Has(jwk.k)
                          \/ (isAes /\ 8 * Len(decodeBase64Url(Get(jwk.k))) # algorithm.length))
     THEN Fail(ProviderDataError, call)
     ELSE IF (private \/ isSecret) /\ usages = <<>>
     THEN Fail(ProviderSyntaxError, call)
     ELSE Ok(KeyV(Handle(IF isSecret THEN "secret" ELSE IF private THEN "private"
                         ELSE "public",
                         extractable, algorithm, usages,
                         IF isSecret THEN <<>> ELSE decodeBase64Url(Get(jwk.x)),
                         IF isEc THEN decodeBase64Url(Get(jwk.y)) ELSE <<>>,
                         IF private THEN decodeBase64Url(Get(jwk.d)) ELSE <<>>,
                         IF isSecret THEN decodeBase64Url(Get(jwk.k)) ELSE <<>>)),
             call)

(***************************************************************************)
(* src/utils.ts                                                            *)
(***************************************************************************)
KeyAlgs == {"Ed25519", "X25519", "P-256", "ES256", "P-384", "ES384", "P-521", "ES512"}

\* The switch with its default case answering as for Ed25519.
keyAlgOpen(alg) ==
  CASE alg = "X25519" -> Ok(Descriptor("X25519", "", "", 0), <<>>)
    [] alg \in {"P-256", "ES256"} -> Ok(Descriptor("ECDSA", "P-256", "", 0), <<>>)
    [] alg \in {"P-384", "ES384"} -> Ok(Descriptor("ECDSA", "P-384", "", 0), <<>>)
    [] alg \in {"P-521", "ES512"} -> Ok(Descriptor("ECDSA", "P-521", "", 0), <<>>)
    [] OTHER -> Ok(Descriptor("Ed25519", "", "", 0), <<>>)

keyAlg(alg) ==
  CASE alg = "Ed25519" -> Ok(Descriptor("Ed25519", "", "", 0), <<>>)
    [] alg = "X25519" -> Ok(Descriptor("X25519", "", "", 0), <<>>)
    [] alg \in {"P-256", "ES256"} -> Ok(Descriptor("ECDSA", "P-256", "", 0), <<>>)
    [] alg \in {"P-384", "ES384"} -> Ok(Descriptor("ECDSA", "P-384", "", 0), <<>>)
    [] alg \in {"P-521", "ES512"} -> Ok(Descriptor("ECDSA", "P-521", "", 0), <<>>)
    [] OTHER -> Fail(UnsupportedAlgorithm, <<>>)

\* The usages without the X25519 case.
keyAlgUsageSignVerify(alg) == <<"sign", "verify">>

keyAlgUsage(alg) == IF alg # "X25519" THEN <<"sign", "verify">> ELSE <<"deriveKey">>

isPair(keys) == keys.kind = "pair"

(***************************************************************************)
(* src/keys.ts                                                             *)
(***************************************************************************)
generateKeyPair(alg, extractable, seed) ==
  LET a == keyAlg(alg)
  IN IF a.ok
     THEN ProviderGenerateKey(a.value, IF Has(extractable) THEN Get(extractable) ELSE TRUE,
                              keyAlgUsage(alg), seed)
     ELSE a

(***************************************************************************)
(* src/aes.ts                                                              *)
(***************************************************************************)
AesOptions(name, length, extractable) ==
  [name |-> name, length |-> length, extractable |-> extractable]

\* options.length ??= 256 writes to the caller's object.
aesOptionsAfter(options) ==
  [options EXCEPT !.length = IF Has(options.length) THEN options.length ELSE Some(256)]

generateAesSecret(options, seed) ==
  LET o == aesOptionsAfter(options)
  IN ProviderGenerateKey(Descriptor(o.name, "", "", Get(o.length)),
                         IF Has(o.extractable) THEN Get(o.extractable) ELSE TRUE,
                         IF o.name # "AES-KW" THEN <<"encrypt", "decrypt">>
                         ELSE <<"wrapKey", "unwrapKey">>,
                         seed)

(***************************************************************************)
(* src/exportKey.ts                                                        *)
(***************************************************************************)
RawFormats == {"raw", "hex", "base64url"}

\* The encoding step with hex answered in the base64url alphabet.
ExportEncodeHexAsBase64Url(format, raw) ==
  CASE format = "raw" -> BytesV(raw)
    [] OTHER -> TextV(encodeBase64Url(raw))

\* if (format === 'raw') return raw; 'hex' -> encodeHex; 'base64url' -> encodeBase64Url
ExportEncode(format, raw) ==
  CASE format = "raw" -> BytesV(raw)
    [] format = "hex" -> TextV(encodeHex(raw))
    [] OTHER -> TextV(encodeBase64Url(raw))

\* The ECDSA layout with the coordinates in the other order.
EcRawYX(key, jwk) ==
  IF key.type = "private"
  THEN decodeBase64Url(Get(jwk.d))
  ELSE concat(decodeBase64Url(Get(jwk.y)), decodeBase64Url(Get(jwk.x)))

\* key.type === 'private' ? d : x || y
EcRaw(key, jwk) ==
  IF key.type = "private"
  THEN decodeBase64Url(Get(jwk.d))
  ELSE concat(decodeBase64Url(Get(jwk.x)), decodeBase64Url(Get(jwk.y)))

\* key.type === 'private' ? d : x
OkpRaw(key, jwk) ==
  IF key.type = "private"
  THEN decodeBase64Url(Get(jwk.d))
  ELSE decodeBase64Url(Get(jwk.x))

JwkOnlyNames == {"RSASSA-PKCS1-v1_5", "AES-CBC", "AES-CTR", "AES-GCM", "AES-KW"}

\* The switch with the provider asked before the format is looked at.
ExportSwitchCallFirst(format, key, calls) ==
  IF key.algorithm.name \in JwkOnlyNames
  THEN LET e == ProviderExportJwk(key)
       IN IF format # "jwk"
          THEN Fail(UnsupportedFormatForAlgorithm, calls \o e.calls)
          ELSE [e EXCEPT !.calls = calls \o e.calls]
  ELSE Fail(UnsupportedAlgorithm, calls)

\* The switch that ends exportKey, after the calls made so far.
ExportSwitch(format, key, calls) ==
  IF key.algorithm.name \in JwkOnlyNames
  THEN IF format # "jwk"
       THEN Fail(UnsupportedFormatForAlgorithm, calls)
       ELSE LET e == ProviderExportJwk(key)
            IN [e EXCEPT !.calls = calls \o e.calls]
  ELSE Fail(UnsupportedAlgorithm, calls)

exportKeySingle(format, key) ==
  LET name == key.algorithm.name
      e == ProviderExportJwk(key)
  IN IF name = "ECDSA" \/ name = "Ed25519" \/ name = "X25519"
     THEN IF ~e.ok THEN e
          ELSE IF format = "jwk" THEN e
          ELSE IF format \in RawFormats
          THEN Ok(ExportEncode(format,
                               IF name = "ECDSA" THEN EcRaw(key, e.value.data)
                               ELSE OkpRaw(key, e.value.data)),
                  e.calls)
          ELSE ExportSwitch(format, key, e.calls)
     ELSE ExportSwitch(format, key, <<>>)

\* The pair branch with the public key exported first.
exportKeyPublicFirst(format, key) ==
  IF isPair(key)
  THEN LET a == exportKeySingle(format, key.data.privateKey)
           b == exportKeySingle(format, key.data.publicKey)
       IN IF ~b.ok THEN b
          ELSE IF ~a.ok THEN [a EXCEPT !.calls = b.calls \o a.calls]
          ELSE Ok(ExportedPairV(a.value, b.value), b.calls \o a.calls)
  ELSE exportKeySingle(format, key.data)

exportKey(format, key) ==
  IF isPair(key)
  THEN LET a == exportKeySingle(format, key.data.privateKey)
           b == exportKeySingle(format, key.data.publicKey)
       IN IF ~a.ok THEN a
          ELSE IF ~b.ok THEN [b EXCEPT !.calls = a.calls \o b.calls]
          ELSE Ok(ExportedPairV(a.value, b.value), a.calls \o b.calls)
  ELSE exportKeySingle(format, key.data)

(***************************************************************************)
(* src/importKey.ts                                                        *)
(***************************************************************************)
ImportOptions(alg, extractable, publicKey, privateKey) ==
  [alg |-> alg, extractable |-> extractable, publicKey |-> publicKey,
   privateKey |-> privateKey]

\* JavaScript truthiness of an option value: undefined and '' are falsy, a
\* Uint8Array (even an empty one) and a non-empty string are truthy.
Truthy(v) ==
  CASE v.kind = "undefined" -> FALSE
    [] v.kind = "text" -> Len(v.data) > 0
    [] OTHER -> TRUE

IsDigits(t) == \A k \in 1..Len(t) : t[k] \in 48..57

RECURSIVE DecimalValue(_)
DecimalValue(t) ==
  IF Len(t) = 0 THEN 0
  ELSE 10 * DecimalValue(SubSeq(t, 1, Len(t) - 1)) + (t[Len(t)] - 48)

\* new Uint8Array(v): a copy of a byte array; a string is taken as a length
\* (ToNumber, NaN counting as 0) and gives that many zero bytes.
Uint8ArrayFrom(v) ==
  CASE v.kind = "bytes" -> Ok(v.data, <<>>)
    [] v.kind = "text" /\ IsDigits(v.data) /\ Len(v.data) <= 9 ->
         Ok([i \in 1..DecimalValue(v.data) |-> 0], <<>>)
    [] v.kind = "text" /\ IsDigits(v.data) -> Fail(RangeErrorLength, <<>>)
    [] OTHER -> Ok(<<>>, <<>>)

\* decodeHex(v): throws on a string of odd length or with a non-hex character.
DecodeHexArg(v) ==
  IF v.kind = "text" /\ HexValid(v.data)
  THEN Ok(decodeHex(v.data), <<>>)
  ELSE Fail(IF v.kind = "text" THEN MalformedEncoding ELSE TypeErrorUndefined, <<>>)

DecodeArg(format, v) == IF format = "hex" THEN DecodeHexArg(v) ELSE Uint8ArrayFrom(v)

\* One case of the switch of _importXY_D: the two length checks and the split.
XY_D(publicKey, privateKey, publicLen, privateLen, ec) ==
  IF Len(publicKey) # publicLen THEN Fail(InvalidKeyLength, <<>>)
  ELSE IF Has(privateKey) /\ Len(Get(privateKey)) # privateLen
  THEN Fail(InvalidKeyLength, <<>>)
  ELSE Ok([x |-> Some(encodeBase64Url(IF ec THEN slice(publicKey, 0, privateLen)
                                      ELSE publicKey)),
           y |-> IF ec THEN Some(encodeBase64Url(sliceFrom(publicKey, privateLen)))
                 ELSE None,
           d |-> IF Has(privateKey) THEN Some(encodeBase64Url(Get(privateKey)))
                 ELSE None],
          <<>>)

\* The switch with the ES512 label moved to the P-256 case.
_importXY_D_ES512Moved(alg, publicKey, privateKey) ==
  CASE alg = "Ed25519" -> XY_D(publicKey, privateKey, 32, 32, FALSE)
    [] alg \in {"P-256", "ES256", "ES512"} -> XY_D(publicKey, privateKey, 64, 32, TRUE)
    [] alg \in {"P-384", "ES384"} -> XY_D(publicKey, privateKey, 96, 48, TRUE)
    [] alg = "P-521" -> XY_D(publicKey, privateKey, 132, 66, TRUE)
    [] OTHER -> Fail(UnsupportedAlgorithm, <<>>)

_importXY_D(alg, publicKey, privateKey) ==
  CASE alg = "Ed25519" -> XY_D(publicKey, privateKey, 32, 32, FALSE)
    [] alg \in {"P-256", "ES256"} -> XY_D(publicKey, privateKey, 64, 32, TRUE)
    [] alg \in {"P-384", "ES384"} -> XY_D(publicKey, privateKey, 96, 48, TRUE)
    [] alg \in {"P-521", "ES512"} -> XY_D(publicKey, privateKey, 132, 66, TRUE)
    [] OTHER -> Fail(UnsupportedAlgorithm, <<>>)

\* The default of the flag taken as true.
importOptionsAfterTrue(options) ==
  [options EXCEPT !.extractable =
     IF Has(options.extractable) THEN options.extractable ELSE Some(TRUE)]

\* options.extractable ??= false writes to the object importKey is given.
importOptionsAfter(options) ==
  [options EXCEPT !.extractable =
     IF Has(options.extractable) THEN options.extractable ELSE Some(FALSE)]

\* [options.privateKey ? 'sign' : 'verify']
ImportUsages(options) == IF Truthy(options.privateKey) THEN <<"sign">> ELSE <<"verify">>

ImportJwk(kty, crv, xyd) ==
  [EmptyJwk EXCEPT !.kty = Some(kty), !.crv = Some(crv), !.x = xyd.x, !.y = xyd.y,
                   !.d = xyd.d]

\* The switch of importKey over options.alg, once the JWK members are built.
ImportSwitch(options, xyd) ==
  LET alg == options.alg
      ext == Get(options.extractable)
      usages == ImportUsages(options)
  IN CASE alg = "Ed25519" ->
            ProviderImportJwk(ImportJwk("OKP", "Ed25519", xyd),
                              Descriptor("Ed25519", "", "", 0), ext, usages)
       [] alg \in {"P-256", "ES256"} ->
            ProviderImportJwk(ImportJwk("EC", "P-256", xyd),
                              Descriptor("ECDSA", "P-256", "", 0), ext, usages)
       [] alg \in {"P-384", "ES384"} ->
            ProviderImportJwk(ImportJwk("EC", "P-384", xyd),
                              Descriptor("ECDSA", "P-384", "", 0), ext, usages)
       [] alg \in {"P-521", "ES512"} ->
            ProviderImportJwk(ImportJwk("EC", "P-521", xyd),
                              Descriptor("ECDSA", "P-521", "", 0), ext, usages)
       [] OTHER -> Fail(UnsupportedAlgorithm, <<>>)

importKey(format, options) ==
  LET o == importOptionsAfter(options)
      pub == DecodeArg(format, o.publicKey)
      priv == IF Truthy(o.privateKey) THEN DecodeArg(format, o.privateKey)
              ELSE Ok(<<>>, <<>>)
      xyd == _importXY_D(o.alg, pub.value,
                        IF Truthy(o.privateKey) THEN Some(priv.value) ELSE None)
  IN IF ~pub.ok THEN pub
     ELSE IF ~priv.ok THEN priv
     ELSE IF ~xyd.ok THEN xyd
     ELSE ImportSwitch(o, xyd.value)

\* {privateKey, ...options}: both calls get an object of their own.
importKeyPair(format, options) ==
  LET a == importKey(format, options)
      b == importKey(format, [options EXCEPT !.privateKey = Undefined])
  IN IF ~a.ok THEN a
     ELSE IF ~b.ok THEN [b EXCEPT !.calls = a.calls \o b.calls]
     ELSE Ok(PairV(a.value.data, b.value.data), a.calls \o b.calls)

(***************************************************************************)
(* crypto.subtle.exportKey('pkcs8', key) and crypto.subtle.exportKey('raw',*)
(* key).  The PKCS8 form is spelled out for the two OKP curves, the only   *)
(* keys it is asked for here.                                              *)
(***************************************************************************)
\* 30 2e 02 01 00 30 05 06 03 2b 65 <curve> 04 22 04 20, then the scalar
Pkcs8Der(name, d) ==
  <<48, 46, 2, 1, 0, 48, 5, 6, 3, 43, 101, IF name = "X25519" THEN 110 ELSE 112,
    4, 34, 4, 32>> \o d

ProviderExportPkcs8(key) ==
  LET call == <<ExportCall("pkcs8", key)>>
  IN IF ~key.extractable \/ key.type # "private"
     THEN Fail(ProviderInvalidAccess, call)
     ELSE IF key.algorithm.name \in OkpCurves
     THEN Ok(BytesV(Pkcs8Der(key.algorithm.name, key.d)), call)
     ELSE Fail(ProviderNotSupported, call)

ProviderExportRaw(key) ==
  LET call == <<ExportCall("raw", key)>>
  IN IF ~key.extractable \/ key.type = "private"
     THEN Fail(ProviderInvalidAccess, call)
     ELSE IF key.type = "secret" THEN Ok(BytesV(key.k), call)
     ELSE IF key.algorithm.name \in {"ECDSA", "ECDH"}
     THEN Ok(BytesV(<<4>> \o key.x \o key.y), call)
     ELSE IF key.algorithm.name \in OkpCurves THEN Ok(BytesV(key.x), call)
     ELSE Fail(ProviderNotSupported, call)

(***************************************************************************)
(* src/utils.ts: algList and isKeyAlg                                      *)
(***************************************************************************)
algList ==
  [a \in KeyAlgs |-> IF a \in {"ES512", "P-521"} THEN ~env.isDeno ELSE TRUE]

\* The names an object literal answers to through Object.prototype.
ObjectPrototypeKeys ==
  {"constructor", "hasOwnProperty", "isPrototypeOf", "propertyIsEnumerable",
   "toLocaleString", "toString", "valueOf", "__proto__", "__defineGetter__",
   "__defineSetter__", "__lookupGetter__", "__lookupSetter__"}

\* alg in algList: own properties and inherited ones alike
isKeyAlg(alg) == alg \in (DOMAIN algList) \cup ObjectPrototypeKeys

(***************************************************************************)
(* src/keys.ts: extractX25519PrivateKeyRaw.  pkcs8[i] past the end is      *)
(* undefined (None here); slice clamps to the end of the array.            *)
(***************************************************************************)
InvalidSequence == "Invalid format: expected SEQUENCE"
InvalidSequenceLength == "Invalid sequence length"
InvalidVersion == "Invalid version format"
InvalidAlgorithmSequence == "Invalid format: expected SEQUENCE for algorithm identifier"
InvalidAlgorithmLength == "Invalid algorithm identifier length"
InvalidOid == "Invalid OID for X25519"
InvalidOctetString == "Invalid format: expected OCTET STRING for private key"
InvalidPrivateKeyLength == "Invalid private key length"

At(pkcs8, index) == IF index < Len(pkcs8) THEN Some(pkcs8[index + 1]) ELSE None

X25519Oid == <<6, 3, 43, 101, 110>>

\* oid.every((value, i) => value === [0x06, 0x03, 0x2b, 0x65, 0x6e][i])
OidEvery(oid) == \A i \in 1..Len(oid) : oid[i] = X25519Oid[i]

extractX25519PrivateKeyRaw(pkcs8) ==
  IF At(pkcs8, 0) # Some(48) THEN Fail(InvalidSequence, <<>>)
  ELSE IF At(pkcs8, 1) # Some(Len(pkcs8) - 2) THEN Fail(InvalidSequenceLength, <<>>)
  ELSE IF At(pkcs8, 2) # Some(2) \/ At(pkcs8, 3) # Some(1) \/ At(pkcs8, 4) # Some(0)
  THEN Fail(InvalidVersion, <<>>)
  ELSE IF At(pkcs8, 5) # Some(48) THEN Fail(InvalidAlgorithmSequence, <<>>)
  ELSE IF At(pkcs8, 6) # Some(5) THEN Fail(InvalidAlgorithmLength, <<>>)
  ELSE IF ~OidEvery(slice(pkcs8, 7, 12)) THEN Fail(InvalidOid, <<>>)
  ELSE IF At(pkcs8, 14) # Some(4) THEN Fail(InvalidOctetString, <<>>)
  ELSE IF At(pkcs8, 15) # Some(32) THEN Fail(InvalidPrivateKeyLength, <<>>)
  ELSE Ok(BytesV(slice(pkcs8, 16, 48)), <<>>)

(***************************************************************************)
(* exportKeyRawX25519                                                      *)
(***************************************************************************)
ExportKeyResultV(public, private) ==
  [kind |-> "exportKeyResult", data |-> [public |-> public, private |-> private]]

exportKeyRawX25519(keys) ==
  IF keys.privateKey.algorithm.name = "X25519"
  THEN LET pub == ProviderExportRaw(keys.publicKey)
           v == ProviderExportPkcs8(keys.privateKey)
           d == extractX25519PrivateKeyRaw(v.value.data)
       IN IF ~pub.ok THEN pub
          ELSE IF ~v.ok THEN [v EXCEPT !.calls = pub.calls \o v.calls]
          ELSE IF ~d.ok THEN [d EXCEPT !.calls = pub.calls \o v.calls]
          ELSE Ok(ExportKeyResultV(encodeHex(pub.value.data), encodeHex(d.value.data)),
                  pub.calls \o v.calls)
  ELSE Fail(UnsupportedAlgorithm, <<>>)

(***************************************************************************)
(* crypto.subtle.importKey('raw', keyData, algorithm, extractable, usages) *)
(* for the AES family, and AES-GCM encrypt / decrypt.  The cipher is a     *)
(* keystream added byte by byte, followed by a 16-byte tag over the key,   *)
(* the IV and the ciphertext.                                              *)
(***************************************************************************)
ProviderOperationError == "provider:OperationError"

ImportRawCall(keyData, algorithm, extractable, usages) ==
  [fn |-> "importKey", format |-> "raw", keyData |-> keyData, algorithm |-> algorithm,
   extractable |-> extractable, usages |-> usages]

ProviderImportRaw(keyData, algorithm, extractable, usages) ==
  LET call == <<ImportRawCall(keyData, algorithm, extractable, usages)>>
  IN IF algorithm.name \notin AesNames THEN Fail(ProviderNotSupported, call)
     ELSE IF ~(Range(usages) \subseteq SecretUsages(algorithm.name)) \/ usages = <<>>
     THEN Fail(ProviderSyntaxError, call)
     ELSE IF 8 * Len(keyData) \notin {128, 192, 256} THEN Fail(ProviderDataError, call)
     ELSE Ok(KeyV(Handle("secret", extractable,
                         Descriptor(algorithm.name, "", "", 8 * Len(keyData)),
                         usages, <<>>, <<>>, <<>>, keyData)),
             call)

CipherCall(fn, iv, key, data) == [fn |-> fn, iv |-> iv, key |-> key, data |-> data]

Keystream(key, iv, i) ==
  (key.k[((i - 1) % Len(key.k)) + 1] + iv[((i - 1) % Len(iv)) + 1] + i) % 256

RECURSIVE SumOf(_)
SumOf(b) == IF Len(b) = 0 THEN 0 ELSE (b[1] + SumOf(Tail(b))) % 256

GcmTag(key, iv, cipher) ==
  [j \in 1..16 |-> (SumOf(cipher) + Len(cipher) + Keystream(key, iv, j)) % 256]

GcmUsable(key, usage) ==
  key.type = "secret" /\ key.algorithm.name = "AES-GCM" /\ usage \in Range(key.usages)

ProviderEncrypt(iv, key, data) ==
  LET call == <<CipherCall("encrypt", iv, key, data)>>
      cipher == [i \in 1..Len(data) |-> (data[i] + Keystream(key, iv, i)) % 256]
  IN IF ~GcmUsable(key, "encrypt") THEN Fail(ProviderInvalidAccess, call)
     ELSE IF Len(iv) = 0 THEN Fail(ProviderOperationError, call)
     ELSE Ok(BytesV(cipher \o GcmTag(key, iv, cipher)), call)

ProviderDecrypt(iv, key, data) ==
  LET call == <<CipherCall("decrypt", iv, key, data)>>
      cipher == SubSeq(data, 1, Len(data) - 16)
      tag == SubSeq(data, Len(data) - 15, Len(data))
  IN IF ~GcmUsable(key, "decrypt") THEN Fail(ProviderInvalidAccess, call)
     ELSE IF Len(iv) = 0 \/ Len(data) < 16 THEN Fail(ProviderOperationError, call)
     ELSE IF tag # GcmTag(key, iv, cipher) THEN Fail(ProviderOperationError, call)
     ELSE Ok(BytesV([i \in 1..Len(cipher) |->
                       (cipher[i] + 256 - Keystream(key, iv, i)) % 256]),
             call)

(***************************************************************************)
(* src/aes.ts: exportSecret, importSecret                                  *)
(***************************************************************************)
KeyTypeNotSecret == "key type most be secret"
UnknownExportFormat == "Unknown format to export"

exportSecret(format, key) ==
  IF key.type # "secret" THEN Fail(KeyTypeNotSecret, <<>>)
  ELSE LET raw == ProviderExportRaw(key)
       IN IF ~raw.ok THEN raw
          ELSE IF format = "raw" THEN raw
          ELSE IF format = "hex" THEN Ok(TextV(encodeHex(raw.value.data)), raw.calls)
          ELSE IF format = "base64url"
          THEN Ok(TextV(encodeBase64Url(raw.value.data)), raw.calls)
          ELSE Fail(UnknownExportFormat, raw.calls)

\* Uint8Array.fromHex / Uint8Array.fromBase64(.., {alphabet: 'base64url'}) /
\* new Uint8Array(secret); with any other format the secret stays as it is.
DecodeSecret(format, secret) ==
  CASE format = "hex" ->
         IF secret.kind # "text" THEN Fail(TypeErrorUndefined, <<>>)
         ELSE IF HexValid(secret.data) THEN Ok(BytesV(decodeHex(secret.data)), <<>>)
         ELSE Fail(MalformedEncoding, <<>>)
    [] format = "base64url" ->
         IF secret.kind # "text" THEN Fail(TypeErrorUndefined, <<>>)
         ELSE IF B64Valid(secret.data)
         THEN Ok(BytesV(decodeBase64Url(secret.data)), <<>>)
         ELSE Fail(MalformedEncoding, <<>>)
    [] format = "raw" ->
         LET u == Uint8ArrayFrom(secret)
         IN IF u.ok THEN Ok(BytesV(u.value), <<>>) ELSE u
    [] OTHER -> Ok(secret, <<>>)

\* The secret is imported whatever its length.
importSecretUnchecked(format, options, secret) ==
  LET o == aesOptionsAfter(options)
      s == DecodeSecret(format, secret)
  IN IF ~s.ok THEN s
     ELSE ProviderImportRaw(s.value.data, Descriptor(o.name, "", "", Get(o.length)),
                            IF Has(o.extractable) THEN Get(o.extractable) ELSE FALSE,
                            IF o.name # "AES-KW" THEN <<"encrypt", "decrypt">>
                            ELSE <<"wrapKey", "unwrapKey">>)

importSecret(format, options, secret) ==
  LET o == aesOptionsAfter(options)
      s == DecodeSecret(format, secret)
  IN IF ~s.ok THEN s
     ELSE IF s.value.kind # "bytes" \/ 8 * Len(s.value.data) # Get(o.length)
     THEN Fail(InvalidKeyLength, <<>>)
     ELSE ProviderImportRaw(s.value.data, Descriptor(o.name, "", "", Get(o.length)),
                            IF Has(o.extractable) THEN Get(o.extractable) ELSE FALSE,
                            IF o.name # "AES-KW" THEN <<"encrypt", "decrypt">>
                            ELSE <<"wrapKey", "unwrapKey">>)

(***************************************************************************)
(* TextEncoder / TextDecoder (UTF-8; a string is a sequence of UTF-16 code *)
(* units) and JSON.stringify / JSON.parse on scalar values.                *)
(***************************************************************************)
StringV(cs) == [kind |-> "string", data |-> cs]

IsHigh(c) == c \in 55296..56319
IsLow(c) == c \in 56320..57343

RECURSIVE TextEncode(_)
TextEncode(s) ==
  IF Len(s) = 0 THEN <<>>
  ELSE LET c == s[1]
       IN IF IsHigh(c) /\ Len(s) >= 2 /\ IsLow(s[2])
          THEN LET cp == 65536 + (c - 55296) * 1024 + (s[2] - 56320)
               IN <<240 + cp \div 262144, 128 + ((cp \div 4096) % 64),
                    128 + ((cp \div 64) % 64), 128 + (cp % 64)>>
                  \o TextEncode(SubSeq(s, 3, Len(s)))
          ELSE (CASE c < 128 -> <<c>>
                  [] c >= 128 /\ c < 2048 -> <<192 + c \div 64, 128 + (c % 64)>>
                  [] IsHigh(c) \/ IsLow(c) -> <<239, 191, 189>>
                  [] OTHER -> <<224 + c \div 4096, 128 + ((c \div 64) % 64), 128 + (c % 64)>>)
               \o TextEncode(Tail(s))

RECURSIVE Utf8Decode(_)
Utf8Decode(b) ==
  IF Len(b) = 0 THEN <<>>
  ELSE LET b1 == b[1]
       IN CASE b1 < 128 -> <<b1>> \o Utf8Decode(Tail(b))
            [] b1 \in 192..223 /\ Len(b) >= 2 ->
                 <<(b1 - 192) * 64 + (b[2] - 128)>> \o Utf8Decode(SubSeq(b, 3, Len(b)))
            [] b1 \in 224..239 /\ Len(b) >= 3 ->
                 <<(b1 - 224) * 4096 + (b[2] - 128) * 64 + (b[3] - 128)>>
                 \o Utf8Decode(SubSeq(b, 4, Len(b)))
            [] b1 \in 240..247 /\ Len(b) >= 4 ->
                 LET cp == (b1 - 240) * 262144 + (b[2] - 128) * 4096
                           + (b[3] - 128) * 64 + (b[4] - 128) - 65536
                 IN <<55296 + cp \div 1024, 56320 + (cp % 1024)>>
                    \o Utf8Decode(SubSeq(b, 5, Len(b)))
            [] OTHER -> <<65533>> \o Utf8Decode(Tail(b))

\* new TextDecoder().decode(bytes): a leading byte order mark is dropped.
TextDecode(b) ==
  LET s == Utf8Decode(b)
  IN IF Len(s) > 0 /\ s[1] = 65279 THEN Tail(s) ELSE s

JsonSyntaxError == "SyntaxError"

JString(cs) == [kind |-> "json", t |-> "string", data |-> cs]
JNumber(n) == [kind |-> "json", t |-> "number", data |-> <<n>>]
JNull == [kind |-> "json", t |-> "null", data |-> <<>>]
JNaN == [kind |-> "json", t |-> "NaN", data |-> <<>>]
JUndefined == [kind |-> "json", t |-> "undefined", data |-> <<>>]

NullText == <<110, 117, 108, 108>>

\* The characters of a string between the quotes: '"' and '\' get a '\'.
RECURSIVE JsonEscape(_)
JsonEscape(cs) ==
  IF Len(cs) = 0 THEN <<>>
  ELSE (IF cs[1] \in {34, 92} THEN <<92, cs[1]>> ELSE <<cs[1]>>) \o JsonEscape(Tail(cs))

RECURSIVE JsonUnescape(_)
JsonUnescape(cs) ==
  IF Len(cs) = 0 THEN <<>>
  ELSE IF cs[1] = 92 /\ Len(cs) >= 2 THEN <<cs[2]>> \o JsonUnescape(SubSeq(cs, 3, Len(cs)))
  ELSE <<cs[1]>> \o JsonUnescape(Tail(cs))

\* JSON.stringify(v): undefined for undefined, 'null' for null and for NaN.
\* The strings are of characters written as they are or with a backslash,
\* the numbers of one digit.
JsonStringify(v) ==
  CASE v.t = "string" -> Some(<<34>> \o JsonEscape(v.data) \o <<34>>)
    [] v.t = "number" -> Some(<<48 + v.data[1]>>)
    [] v.t = "undefined" -> None
    [] OTHER -> Some(NullText)

JsonParse(text) ==
  CASE text = NullText -> Ok(JNull, <<>>)
    [] Len(text) = 1 /\ text[1] \in 48..57 -> Ok(JNumber(text[1] - 48), <<>>)
    [] Len(text) >= 2 /\ text[1] = 34 /\ text[Len(text)] = 34 ->
         Ok(JString(JsonUnescape(SubSeq(text, 2, Len(text) - 1))), <<>>)
    [] OTHER -> Fail(JsonSyntaxError, <<>>)

(***************************************************************************)
(* src/aes.ts: aesCodec and aesEncrypt                                     *)
(***************************************************************************)
Base64Char(v) == IF v = 62 THEN 43 ELSE IF v = 63 THEN 47 ELSE B64Char(v)

Base64Val(c) ==
  IF c = 43 THEN 62 ELSE IF c = 47 THEN 63 ELSE IF c \in {45, 95} THEN -1 ELSE B64Val(c)

\* Uint8Array.prototype.toBase64(): the standard alphabet, padded with '='.
toBase64(b) ==
  LET t == encodeBase64Url(b)
  IN [k \in 1..Len(t) |-> Base64Char(B64Val(t[k]))]
     \o (CASE Len(b) % 3 = 1 -> <<61, 61>> [] Len(b) % 3 = 2 -> <<61>> [] OTHER -> <<>>)

StripPadding(t) ==
  IF Len(t) >= 2 /\ t[Len(t)] = 61 /\ t[Len(t) - 1] = 61 THEN SubSeq(t, 1, Len(t) - 2)
  ELSE IF Len(t) >= 1 /\ t[Len(t)] = 61 THEN SubSeq(t, 1, Len(t) - 1)
  ELSE t

\* Uint8Array.fromBase64(input)
fromBase64(input) ==
  LET t == StripPadding(input)
  IN IF Len(t) % 4 # 1 /\ \A k \in 1..Len(t) : Base64Val(t[k]) >= 0
     THEN Ok(decodeBase64Url([k \in 1..Len(t) |-> B64Char(Base64Val(t[k]))]), <<>>)
     ELSE Fail(MalformedEncoding, <<>>)

Codecs == {"base64", "base64url", "hex", "bytes"}

CodecEncode(codec, output) ==
  CASE codec = "base64" -> TextV(toBase64(output))
    [] codec = "base64url" -> TextV(encodeBase64Url(output))
    [] codec = "hex" -> TextV(encodeHex(output))
    [] OTHER -> BytesV(output)

CodecDecode(codec, input) ==
  CASE codec = "base64" -> fromBase64(input.data)
    [] codec = "base64url" ->
         IF B64Valid(input.data) THEN Ok(decodeBase64Url(input.data), <<>>)
         ELSE Fail(MalformedEncoding, <<>>)
    [] codec = "hex" ->
         IF HexValid(input.data) THEN Ok(decodeHex(input.data), <<>>)
         ELSE Fail(MalformedEncoding, <<>>)
    [] OTHER -> Ok(input.data, <<>>)

ivLen == 12

\* crypto.getRandomValues(new Uint8Array(ivLen))
RandomIv(seed) == Buf(ivLen, seed, 5)

encrypt(key, codec, data, seed) ==
  LET iv == RandomIv(seed)
      encrypted == ProviderEncrypt(iv, key, data)
  IN IF ~encrypted.ok THEN encrypted
     ELSE Ok(CodecEncode(codec, iv \o encrypted.value.data), encrypted.calls)

decrypt(key, codec, encrypted) ==
  LET buffer == CodecDecode(codec, encrypted)
  IN IF ~buffer.ok THEN buffer
     ELSE ProviderDecrypt(slice(buffer.value, 0, ivLen), key, sliceFrom(buffer.value, ivLen))

encryptText(key, codec, data, seed) == encrypt(key, codec, TextEncode(data), seed)

decryptText(key, codec, encrypted) ==
  LET d == decrypt(key, codec, encrypted)
  IN IF ~d.ok THEN d ELSE Ok(StringV(TextDecode(d.value.data)), d.calls)

\* encoder.encode(undefined) is the empty array.
encryptJson(key, codec, data, seed) ==
  LET text == JsonStringify(data)
  IN encrypt(key, codec, IF Has(text) THEN TextEncode(Get(text)) ELSE <<>>, seed)

decryptJson(key, codec, encrypted) ==
  LET d == decrypt(key, codec, encrypted)
      v == JsonParse(TextDecode(d.value.data))
  IN IF ~d.ok THEN d
     ELSE IF ~v.ok THEN [v EXCEPT !.calls = d.calls]
     ELSE Ok(v.value, d.calls)

(***************************************************************************)
(* jwkAlgorithm (src/jwk.ts)                                               *)
(***************************************************************************)
RecognizedOps ==
  {"sign", "verify", "encrypt", "decrypt", "wrapKey", "unwrapKey", "deriveKey",
   "deriveBits"}

\* for (const op of jwk.key_ops) if (op === ...) keyUsage.push(op)
RECURSIVE KeyOpsLoop(_, _)
KeyOpsLoop(ops, keyUsage) ==
  IF ops = <<>> THEN keyUsage
  ELSE KeyOpsLoop(Tail(ops),
                  IF Head(ops) \in RecognizedOps THEN Append(keyUsage, Head(ops))
                  ELSE keyUsage)

\* The usage inference with an empty key_ops taken as absent.
jwkKeyUsageEmptyAsAbsent(jwk) ==
  IF Has(jwk.key_ops) /\ Get(jwk.key_ops) # <<>> THEN KeyOpsLoop(Get(jwk.key_ops), <<>>)
  ELSE IF Has(jwk.use) /\ Get(jwk.use) # ""
  THEN CASE Get(jwk.use) = "sig" -> <<"sign", "verify">>
         [] Get(jwk.use) = "enc" -> <<"encrypt", "decrypt", "wrapKey", "unwrapKey">>
         [] OTHER -> <<>>
  ELSE <<>>

jwkKeyUsage(jwk) ==
  IF Has(jwk.key_ops) THEN KeyOpsLoop(Get(jwk.key_ops), <<>>)
  ELSE IF Has(jwk.use) /\ Get(jwk.use) # ""
  THEN CASE Get(jwk.use) = "sig" -> <<"sign", "verify">>
         [] Get(jwk.use) = "enc" -> <<"encrypt", "decrypt", "wrapKey", "unwrapKey">>
         [] OTHER -> <<>>
  ELSE <<>>

RECURSIVE Join(_)
Join(cs) == IF cs = <<>> THEN "" ELSE Head(cs) \o Join(Tail(cs))

startsWith(s, prefix) == Len(s) >= Len(prefix) /\ SubSeq(s, 1, Len(prefix)) = prefix

Digit(c) ==
  CASE c = "0" -> 0 [] c = "1" -> 1 [] c = "2" -> 2 [] c = "3" -> 3 [] c = "4" -> 4
    [] c = "5" -> 5 [] c = "6" -> 6 [] c = "7" -> 7 [] c = "8" -> 8 [] OTHER -> 9

RECURSIVE ToNumber(_)
ToNumber(cs) ==
  IF cs = <<>> THEN 0 ELSE 10 * ToNumber(SubSeq(cs, 1, Len(cs) - 1)) + Digit(cs[Len(cs)])

JwkResult(options, keyUsage) == Ok([options |-> options, keyUsage |-> keyUsage], <<>>)

\* The RSA case with the digits alone as the hash name.
jwkRsaBareHash(jwk, keyUsage) ==
  LET alg == Get(jwk.alg)
  IN IF Has(jwk.alg) /\ (startsWith(alg, <<"R", "S">>) \/ startsWith(alg, <<"P", "S">>))
     THEN LET hashName == Join(sliceFrom(alg, 2))
          IN IF Join(alg) \in {"RS1", "RS256", "RS384", "RS512"}
             THEN JwkResult(Descriptor("RSASSA-PKCS1-v1_5", "", hashName, 0), keyUsage)
             ELSE IF Join(alg) \in {"PS256", "PS384", "PS512"}
             THEN JwkResult(Descriptor("RSA-PSS", "", hashName, 0), keyUsage)
             ELSE Fail(UnsupportedAlgorithm, <<>>)
     ELSE Fail(MissingAlgorithmHint, <<>>)

jwkRsa(jwk, keyUsage) ==
  LET alg == Get(jwk.alg)
  IN IF Has(jwk.alg) /\ (startsWith(alg, <<"R", "S">>) \/ startsWith(alg, <<"P", "S">>))
     THEN LET hashName == "SHA-" \o Join(sliceFrom(alg, 2))
          IN IF Join(alg) \in {"RS1", "RS256", "RS384", "RS512"}
             THEN JwkResult(Descriptor("RSASSA-PKCS1-v1_5", "", hashName, 0), keyUsage)
             ELSE IF Join(alg) \in {"PS256", "PS384", "PS512"}
             THEN JwkResult(Descriptor("RSA-PSS", "", hashName, 0), keyUsage)
             ELSE Fail(UnsupportedAlgorithm, <<>>)
     ELSE Fail(MissingAlgorithmHint, <<>>)

\* The oct case without the check of the length digits.
jwkOctAnyLength(jwk, keyUsage) ==
  LET alg == Get(jwk.alg)
  IN IF Has(jwk.alg) /\ startsWith(alg, <<"A">>)
     THEN LET length == slice(alg, 1, 4)
              type == sliceFrom(alg, 4)
          IN IF Join(type) \notin {"GCM", "CBC", "CTR", "KW"}
             THEN Fail(UnsupportedAlgorithm, <<>>)
             ELSE JwkResult(Descriptor("AES-" \o Join(type), "", "", ToNumber(length)),
                            keyUsage)
     ELSE Fail(MissingAlgorithmHint, <<>>)

\* The oct case with the length of k compared with the length digits.
jwkOctCheckedKey(jwk, keyUsage) ==
  LET alg == Get(jwk.alg)
  IN IF Has(jwk.alg) /\ startsWith(alg, <<"A">>)
     THEN LET length == slice(alg, 1, 4)
              type == sliceFrom(alg, 4)
          IN IF Join(length) \notin {"256", "192", "128"}
             THEN Fail(UnsupportedAlgorithm, <<>>)
             ELSE IF Join(type) \notin {"GCM", "CBC", "CTR", "KW"}
             THEN Fail(UnsupportedAlgorithm, <<>>)
             ELSE IF Has(jwk.k) /\ 8 * Len(decodeBase64Url(Get(jwk.k))) # ToNumber(length)
             THEN Fail(InvalidKeyLength, <<>>)
             ELSE JwkResult(Descriptor("AES-" \o Join(type), "", "", ToNumber(length)),
                            keyUsage)
     ELSE Fail(MissingAlgorithmHint, <<>>)

jwkOct(jwk, keyUsage) ==
  LET alg == Get(jwk.alg)
  IN IF Has(jwk.alg) /\ startsWith(alg, <<"A">>)
     THEN LET length == slice(alg, 1, 4)
              type == sliceFrom(alg, 4)
          IN IF Join(length) \notin {"256", "192", "128"}
             THEN Fail(UnsupportedAlgorithm, <<>>)
             ELSE IF Join(type) \notin {"GCM", "CBC", "CTR", "KW"}
             THEN Fail(UnsupportedAlgorithm, <<>>)
             ELSE JwkResult(Descriptor("AES-" \o Join(type), "", "", ToNumber(length)),
                            keyUsage)
     ELSE Fail(MissingAlgorithmHint, <<>>)

\* The dispatch with one list of curves for both EC and OKP.
jwkAlgorithmSharedCurves(jwk) ==
  LET keyUsage == jwkKeyUsage(jwk)
      crv == IF Has(jwk.crv) THEN Get(jwk.crv) ELSE ""
      curve == IF crv \in {"P-256", "P-384", "P-521"}
               THEN JwkResult(Descriptor("ECDSA", crv, "", 0), keyUsage)
               ELSE IF crv \in {"Ed25519", "X25519"}
               THEN JwkResult(Descriptor(crv, "", "", 0), keyUsage)
               ELSE Fail(UnsupportedCurve, <<>>)
  IN CASE jwk.kty = Some("EC") -> curve
       [] jwk.kty = Some("OKP") -> curve
       [] jwk.kty = Some("RSA") -> jwkRsa(jwk, keyUsage)
       [] jwk.kty = Some("oct") -> jwkOct(jwk, keyUsage)
       [] OTHER -> Fail(UnsupportedKeyType, <<>>)

jwkAlgorithm(jwk) ==
  LET keyUsage == jwkKeyUsage(jwk)
      crv == IF Has(jwk.crv) THEN Get(jwk.crv) ELSE ""
  IN CASE jwk.kty = Some("EC") ->
            IF crv = "" THEN Fail(UnsupportedCurve, <<>>)
            ELSE IF crv \in {"P-256", "P-384", "P-521"}
            THEN JwkResult(Descriptor("ECDSA", crv, "", 0), keyUsage)
            ELSE Fail(UnsupportedCurve, <<>>)
       [] jwk.kty = Some("OKP") ->
            IF crv = "" THEN Fail(UnsupportedCurve, <<>>)
            ELSE IF crv = "Ed25519"
            THEN JwkResult(Descriptor("Ed25519", "", "", 0), keyUsage)
            ELSE IF crv = "X25519"
            THEN JwkResult(Descriptor("X25519", "", "", 0), keyUsage)
            ELSE Fail(UnsupportedCurve, <<>>)
       [] jwk.kty = Some("RSA") -> jwkRsa(jwk, keyUsage)
       [] jwk.kty = Some("oct") -> jwkOct(jwk, keyUsage)
       [] OTHER -> Fail(UnsupportedKeyType, <<>>)

(***************************************************************************)
(* The caller's session.  held is the key object the caller obtained from  *)
(* a generate call; last is the most recent call: its arguments, its       *)
(* outcome (with the provider calls it made) and the options object as the *)
(* call left it.                                                           *)
(***************************************************************************)
Call(op, args, out, after) == [op |-> op, args |-> args, out |-> out, after |-> after]

NoCall == Call("none", <<>>, Ok(Undefined, <<>>), <<>>)

Flags == {None, Some(TRUE), Some(FALSE)}

GenerateAlgs == KeyAlgs \cup {"Ed448"}
ImportAlgs == KeyAlgs \cup {"Ed448"}
ExportFormats == {"jwk", "raw", "hex", "base64url", "spki"}
AesLengths == {None, Some(128), Some(192), Some(256)}

\* Descriptors a caller hands to crypto.subtle.generateKey directly.
DirectAlgorithms ==
  {Descriptor(n, "", h, 0) : n \in RsaNames, h \in {"SHA-256", "SHA-384", "SHA-512"}}
  \cup {Descriptor("ECDH", "P-256", "", 0), Descriptor("HMAC", "", "SHA-256", 0)}

DirectUsages(algorithm) ==
  IF algorithm.name = "ECDH" THEN <<"deriveKey", "deriveBits">> ELSE <<"sign", "verify">>

Init ==
  /\ held = Undefined
  /\ last = NoCall
  /\ env = FullEnv

GenerateKeyPair ==
  /\ held = Undefined
  /\ \E alg \in GenerateAlgs, extractable \in Flags, seed \in Seeds :
       LET out == generateKeyPair(alg, extractable, seed)
           args == [alg |-> alg, extractable |-> extractable, seed |-> seed]
       IN /\ last' = Call("generateKeyPair", args, out, args)
          /\ held' = IF out.ok THEN out.value ELSE held
          /\ UNCHANGED env

GenerateAesSecret ==
  /\ held = Undefined
  /\ \E name \in AesNames, length \in AesLengths, extractable \in Flags, seed \in Seeds :
       LET options == AesOptions(name, length, extractable)
           out == generateAesSecret(options, seed)
       IN /\ last' = Call("generateAesSecret", [options |-> options, seed |-> seed], out,
                          [options |-> aesOptionsAfter(options), seed |-> seed])
          /\ held' = IF out.ok THEN out.value ELSE held
          /\ UNCHANGED env

\* The caller obtains a handle of another family from the provider itself.
DirectGenerateKey ==
  /\ held = Undefined
  /\ \E algorithm \in DirectAlgorithms, extractable \in BOOLEAN, seed \in Seeds :
       LET out == ProviderGenerateKey(algorithm, extractable, DirectUsages(algorithm), seed)
           args == [algorithm |-> algorithm, extractable |-> extractable, seed |-> seed]
       IN /\ last' = Call("generateKey", args, out, args)
          /\ held' = IF out.ok THEN out.value ELSE held
          /\ UNCHANGED env

\* The key objects the caller can pass on: what it holds, and what the last
\* call returned.
KeysOf(v) ==
  IF v.kind = "key" THEN {v}
  ELSE IF v.kind = "pair" THEN {v, KeyV(v.data.privateKey), KeyV(v.data.publicKey)}
  ELSE {}

\* The caller exports what the last import returned, or else the key it holds.
ExportSubjects ==
  IF last.op \in {"importKey", "importKeyPair"}
  THEN KeysOf(last.out.value)
  ELSE KeysOf(held)

ExportKey ==
  \E format \in ExportFormats, key \in ExportSubjects :
    LET args == [format |-> format, key |-> key]
        out == exportKey(format, key)
    IN /\ last' = Call("exportKey", args, out, args)
       /\ UNCHANGED <<held, env>>

\* The bytes an exported value stands for, and the value a caller builds
\* from bytes in a format.
ExportedRaw(format, v) ==
  CASE format = "raw" -> v.data
    [] format = "hex" -> decodeHex(v.data)
    [] OTHER -> decodeBase64Url(v.data)

Mutate(m, b) ==
  CASE m = "short" -> SubSeq(b, 1, Len(b) - 1)
    [] m = "long" -> Append(b, 0)
    [] m = "empty" -> <<>>
    [] OTHER -> b

Variant(format, v, m) ==
  CASE m = "absent" -> Undefined
    [] m = "exact" -> v
    [] m = "odd" -> TextV(SubSeq(v.data, 1, Len(v.data) - 1))
    [] m = "badchar" -> TextV([v.data EXCEPT ![1] = 42])
    [] OTHER -> ExportEncode(format, Mutate(m, ExportedRaw(format, v)))

\* <<what is done to the public value, what is done to the private value>>
ImportCases ==
  {<<"exact", "exact">>, <<"exact", "absent">>, <<"exact", "short">>,
   <<"exact", "long">>, <<"exact", "empty">>, <<"short", "exact">>,
   <<"long", "exact">>, <<"short", "absent">>, <<"long", "absent">>,
   <<"empty", "exact">>}

\* Faults of a text: one character short, or a character outside the alphabet.
TextCases ==
  {<<"odd", "exact">>, <<"badchar", "exact">>, <<"exact", "odd">>,
   <<"exact", "badchar">>, <<"badchar", "absent">>, <<"short", "badchar">>}

ImportCasesOf(format) == ImportCases \cup (IF format = "raw" THEN {} ELSE TextCases)

\* The caller has exported the pair it holds in a raw, hex or base64url form.
HasExportedPair ==
  /\ last.op = "exportKey"
  /\ last.out.ok
  /\ last.out.value.kind = "exportedPair"
  /\ last.args.format \in RawFormats
  /\ last.args.key = held

ImportOptionsOf(alg, extractable, c) ==
  ImportOptions(alg, extractable,
                Variant(last.args.format, last.out.value.data.publicKey, c[1]),
                Variant(last.args.format, last.out.value.data.privateKey, c[2]))

ImportKey ==
  /\ HasExportedPair
  /\ \E alg \in ImportAlgs, extractable \in Flags, c \in ImportCasesOf(last.args.format) :
       LET format == last.args.format
           options == ImportOptionsOf(alg, extractable, c)
       IN /\ last' = Call("importKey", [format |-> format, options |-> options],
                          importKey(format, options),
                          [format |-> format, options |-> importOptionsAfter(options)])
          /\ UNCHANGED <<held, env>>

ImportKeyPair ==
  /\ HasExportedPair
  /\ \E alg \in ImportAlgs, extractable \in Flags, c \in ImportCasesOf(last.args.format) :
       LET format == last.args.format
           options == ImportOptionsOf(alg, extractable, c)
           args == [format |-> format, options |-> options]
       IN /\ last' = Call("importKeyPair", args, importKeyPair(format, options), args)
          /\ UNCHANGED <<held, env>>

\* The caller asks the provider itself for the structured key object of a key
\* it has just generated, infers the import parameters with jwkAlgorithm and
\* imports the object with them.
DirectExportKey ==
  /\ last.op \in {"generateKeyPair", "generateAesSecret", "generateKey"}
  /\ \E key \in {k \in KeysOf(held) : k.kind = "key"} :
       LET args == [format |-> "jwk", key |-> key]
       IN /\ last' = Call("subtle.exportKey", args, ProviderExportJwk(key.data), args)
          /\ UNCHANGED <<held, env>>

JwkAlgorithmOfExport ==
  /\ last.op \in {"subtle.exportKey", "exportKey"}
  /\ last.args.format = "jwk"
  /\ last.args.key \in KeysOf(held)
  /\ last.out.ok
  /\ last.out.value.kind = "jwk"
  /\ LET args == [jwk |-> last.out.value.data]
     IN /\ last' = Call("jwkAlgorithm", args, jwkAlgorithm(args.jwk), args)
        /\ UNCHANGED <<held, env>>

DirectImportKey ==
  /\ last.op = "jwkAlgorithm"
  /\ last.out.ok
  /\ LET args == [jwk |-> last.args.jwk, algorithm |-> last.out.value.options,
                  extractable |-> TRUE, usages |-> last.out.value.keyUsage]
     IN /\ last' = Call("subtle.importKey", args,
                        ProviderImportJwk(args.jwk, args.algorithm, args.extractable,
                                          args.usages),
                        args)
        /\ UNCHANGED <<held, env>>

Next ==
  \/ GenerateKeyPair
  \/ GenerateAesSecret
  \/ DirectGenerateKey
  \/ ExportKey
  \/ ImportKey
  \/ ImportKeyPair
  \/ DirectExportKey
  \/ JwkAlgorithmOfExport
  \/ DirectImportKey

Spec == Init /\ [][Next]_vars

(***************************************************************************)
(* jwkAlgorithm on its own: the structured key object is drawn at the      *)
(* start, the call returns in one step.                                    *)
(***************************************************************************)
Chars(s) ==
  CASE s = "RS1" -> <<"R", "S", "1">>
    [] s = "RS256" -> <<"R", "S", "2", "5", "6">>
    [] s = "RS384" -> <<"R", "S", "3", "8", "4">>
    [] s = "RS512" -> <<"R", "S", "5", "1", "2">>
    [] s = "RS999" -> <<"R", "S", "9", "9", "9">>
    [] s = "RS" -> <<"R", "S">>
    [] s = "PS1" -> <<"P", "S", "1">>
    [] s = "PS256" -> <<"P", "S", "2", "5", "6">>
    [] s = "PS384" -> <<"P", "S", "3", "8", "4">>
    [] s = "PS512" -> <<"P", "S", "5", "1", "2">>
    [] s = "HS256" -> <<"H", "S", "2", "5", "6">>
    [] s = "ES256" -> <<"E", "S", "2", "5", "6">>
    [] s = "A128GCM" -> <<"A", "1", "2", "8", "G", "C", "M">>
    [] s = "A192GCM" -> <<"A", "1", "9", "2", "G", "C", "M">>
    [] s = "A256GCM" -> <<"A", "2", "5", "6", "G", "C", "M">>
    [] s = "A128CBC" -> <<"A", "1", "2", "8", "C", "B", "C">>
    [] s = "A192CBC" -> <<"A", "1", "9", "2", "C", "B", "C">>
    [] s = "A256CBC" -> <<"A", "2", "5", "6", "C", "B", "C">>
    [] s = "A128CTR" -> <<"A", "1", "2", "8", "C", "T", "R">>
    [] s = "A192CTR" -> <<"A", "1", "9", "2", "C", "T", "R">>
    [] s = "A256CTR" -> <<"A", "2", "5", "6", "C", "T", "R">>
    [] s = "A128KW" -> <<"A", "1", "2", "8", "K", "W">>
    [] s = "A192KW" -> <<"A", "1", "9", "2", "K", "W">>
    [] s = "A256KW" -> <<"A", "2", "5", "6", "K", "W">>
    [] s = "A512GCM" -> <<"A", "5", "1", "2", "G", "C", "M">>
    [] s = "B256GCM" -> <<"B", "2", "5", "6", "G", "C", "M">>
    [] s = "A256XTS" -> <<"A", "2", "5", "6", "X", "T", "S">>
    [] s = "A256" -> <<"A", "2", "5", "6">>
    [] s = "A" -> <<"A">>
    [] OTHER -> <<>>

CurveInputs ==
  {None, Some(""), Some("P-256"), Some("P-384"), Some("P-521"), Some("Ed25519"),
   Some("X25519"), Some("secp256k1")}

RsaAlgInputs ==
  {None} \cup {Some(Chars(s)) : s \in {"", "RS1", "RS256", "RS384", "RS512", "RS999", "RS",
                                       "PS1", "PS256", "PS384", "PS512", "HS256", "ES256",
                                       "A256GCM"}}

OctAlgInputs ==
  {None} \cup {Some(Chars(s)) : s \in {"", "A128GCM", "A192GCM", "A256GCM", "A128CBC",
                                       "A192CBC", "A256CBC", "A128CTR", "A192CTR",
                                       "A256CTR", "A128KW", "A192KW", "A256KW", "A512GCM",
                                       "B256GCM", "A256XTS", "A256", "A", "HS256", "RS256"}}

Shape(kty, crv, alg) == [EmptyJwk EXCEPT !.kty = kty, !.crv = crv, !.alg = alg]

JwkShapes ==
  {Shape(Some(kty), crv, None) : kty \in {"EC", "OKP"}, crv \in CurveInputs}
  \cup {Shape(Some("RSA"), None, alg) : alg \in RsaAlgInputs}
  \cup {Shape(Some("oct"), None, alg) : alg \in OctAlgInputs}
  \cup {Shape(None, Some("P-256"), None), Shape(Some("HMAC"), None, Some(Chars("HS256"))),
        Shape(Some("ec"), Some("P-256"), None)}

\* One accepted shape of each key type, for the usage cases.
UsageShapes ==
  {Shape(Some("EC"), Some("P-256"), None), Shape(Some("OKP"), Some("X25519"), None),
   Shape(Some("RSA"), None, Some(Chars("PS256"))),
   Shape(Some("oct"), None, Some(Chars("A256GCM")))}

OpsUniverse == RecognizedOps \cup {"derive", "Sign"}

KeyOpsInputs ==
  {None} \cup {Some(ops) : ops \in UNION {[1..n -> OpsUniverse] : n \in 0..MaxOps}}

KeyOpsShort == {None, Some(<<>>), Some(<<"sign">>), Some(<<"derive", "verify">>)}

UseInputs == {None, Some("sig"), Some("enc"), Some(""), Some("other")}

WithUsage(shape, key_ops, use) == [shape EXCEPT !.key_ops = key_ops, !.use = use]

\* Key material and the ext flag, as an exported object carries them.
Materials ==
  {[x |-> x, d |-> d, k |-> k, ext |-> ext] :
     x \in {None, Some(encodeBase64Url(Buf(32, 1, 1)))},
     d \in {None, Some(encodeBase64Url(Buf(32, 1, 3)))},
     k \in {None, Some(encodeBase64Url(Buf(16, 1, 4)))},
     ext \in {None, Some(TRUE), Some(FALSE)}}

WithMaterial(jwk, m) == [jwk EXCEPT !.x = m.x, !.d = m.d, !.k = m.k, !.ext = m.ext]

JwkInputs ==
  {WithUsage(s, k, u) : s \in JwkShapes, k \in KeyOpsShort, u \in UseInputs}
  \cup {WithUsage(s, k, u) : s \in UsageShapes, k \in KeyOpsInputs, u \in UseInputs}
  \cup {WithMaterial(WithUsage(s, k, u), m) :
          s \in JwkShapes, k \in {None, Some(<<"sign">>)}, u \in {None, Some("enc")},
          m \in Materials}

InitJwk ==
  /\ held = Undefined
  /\ env = FullEnv
  /\ \E jwk \in JwkInputs :
       last = Call("call", [jwk |-> jwk], Ok(Undefined, <<>>), [jwk |-> jwk])

JwkAlgorithm ==
  /\ last.op = "call"
  /\ last' = Call("jwkAlgorithm", last.args, jwkAlgorithm(last.args.jwk), last.args)
  /\ UNCHANGED <<held, env>>

NextJwk == JwkAlgorithm

SpecJwk == InitJwk /\ [][NextJwk]_vars

(***************************************************************************)
(* The tables of the specification, and what a recorded import was given.  *)
(***************************************************************************)
OkpTags == {"Ed25519", "X25519"}

PublicLen(alg) ==
  CASE alg \in OkpTags -> 32
    [] alg \in {"P-256", "ES256"} -> 64
    [] alg \in {"P-384", "ES384"} -> 96
    [] OTHER -> 132

PrivateLen(alg) ==
  CASE alg \in OkpTags \cup {"P-256", "ES256"} -> 32
    [] alg \in {"P-384", "ES384"} -> 48
    [] OTHER -> 66

TagCurve(alg) ==
  CASE alg \in {"P-256", "ES256"} -> "P-256"
    [] alg \in {"P-384", "ES384"} -> "P-384"
    [] alg \in {"P-521", "ES512"} -> "P-521"
    [] OTHER -> alg

Alias(alg) ==
  CASE alg = "P-256" -> "ES256" [] alg = "ES256" -> "P-256"
    [] alg = "P-384" -> "ES384" [] alg = "ES384" -> "P-384"
    [] alg = "P-521" -> "ES512" [] alg = "ES512" -> "P-521"
    [] OTHER -> alg

Supplied(v) == v.kind # "undefined"

ByteLen(format, v) == Len(ExportedRaw(format, v))

Undecodable(format, v) ==
  /\ v.kind = "text"
  /\ IF format = "hex" THEN ~HexValid(v.data) ELSE ~B64Valid(v.data)

\* No text the last import was given fails to decode.
Decodable ==
  /\ ~Undecodable(last.args.format, last.args.options.publicKey)
  /\ ~Undecodable(last.args.format, last.args.options.privateKey)

\* The last call was importKey in raw or hex format under a supported tag, with
\* values that decode.
RawOrHexImport ==
  /\ last.op = "importKey"
  /\ last.args.format \in {"raw", "hex"}
  /\ last.args.options.alg \in KeyAlgs
  /\ Decodable

\* ... and both values it was given have the length of the tag's table.
LengthsRight ==
  LET format == last.args.format
      o == last.args.options
  IN /\ ByteLen(format, o.publicKey) = PublicLen(o.alg)
     /\ Supplied(o.privateKey) => ByteLen(format, o.privateKey) = PrivateLen(o.alg)

\* The last import was given exactly what exportKey returns for the held pair,
\* under a tag of that pair, with extractable = true.
RoundTripInput ==
  /\ last.op \in {"importKey", "importKeyPair"}
  /\ held.kind = "pair"
  /\ LET format == last.args.format
         o == last.args.options
         e == exportKey(format, held)
     IN /\ keyAlg(o.alg) = Ok(held.data.privateKey.algorithm, <<>>)
        /\ o.extractable = Some(TRUE)
        /\ e.ok
        /\ o.publicKey = e.value.data.publicKey
        /\ o.privateKey \in {e.value.data.privateKey, Undefined}
        /\ last.op = "importKeyPair" => Supplied(o.privateKey)

\* C1: for every supported tag and key pair, export in raw, hex or base64url
\* form, import in the same form under the tag with extractable = true, and
\* export again gives the same public bytes and the same private bytes.
RoundTrip ==
  RoundTripInput =>
    /\ last.out.ok
    /\ LET format == last.args.format
           o == last.args.options
           again == exportKey(format, last.out.value)
       IN /\ again.ok
          /\ CASE last.op = "importKeyPair" ->
                    again.value = ExportedPairV(o.privateKey, o.publicKey)
               [] Supplied(o.privateKey) -> again.value = o.privateKey
               [] OTHER -> again.value = o.publicKey

\* C2: importKey in raw or hex format with a public buffer whose length is not
\* the tag's table value fails with the invalid-key-length error without a
\* call of the provider; with the table length the provider's import is called.
PublicLengthInvariant ==
  (RawOrHexImport
     /\ (Supplied(last.args.options.privateKey) =>
           ByteLen(last.args.format, last.args.options.privateKey)
             = PrivateLen(last.args.options.alg)))
  => IF ByteLen(last.args.format, last.args.options.publicKey)
          # PublicLen(last.args.options.alg)
     THEN ~last.out.ok /\ last.out.err = InvalidKeyLength /\ last.out.calls = <<>>
     ELSE last.out.calls # <<>> /\ last.out.calls[1].fn = "importKey"

\* C3: importKey in raw or hex format with a supplied privateKey whose decoded
\* length is not privateLen of the tag (a zero-length value included) fails
\* with the invalid-key-length error and produces no key handle.
PrivateLengthInvariant ==
  (RawOrHexImport
     /\ Supplied(last.args.options.privateKey)
     /\ ByteLen(last.args.format, last.args.options.privateKey)
          # PrivateLen(last.args.options.alg))
  => /\ ~last.out.ok
     /\ last.out.err = InvalidKeyLength
     /\ last.out.value = Undefined

\* C4: both tags of an alias pair give the same descriptor, and importKey on
\* the same format, key values and extractable flag gives under either tag the
\* same outcome with the same provider call (structured key object, descriptor,
\* extractable flag, usages).
AliasEquivalence ==
  /\ \A alg \in KeyAlgs : keyAlg(alg) = keyAlg(Alias(alg))
  /\ last.op = "importKey" =>
       importKey(last.args.format,
                 [last.args.options EXCEPT !.alg = Alias(last.args.options.alg)])
         = last.out
  /\ last.op = "importKeyPair" =>
       importKeyPair(last.args.format,
                     [last.args.options EXCEPT !.alg = Alias(last.args.options.alg)])
         = last.out

AliasImported ==
  /\ last.op = "importKey"
  /\ last.args.options.alg = "ES384"
  /\ last.out.ok
  /\ last.out.calls[1].jwk.crv = Some("P-384")
  /\ Has(last.out.calls[1].jwk.d)

\* C5: for raw/hex import the structured key object handed to the provider has
\* kty EC and the tag's curve for P-*/ES* tags, kty OKP and crv equal to the tag
\* for Ed25519 and X25519; x and y are the two halves of the public bytes for
\* EC tags, x is the whole public buffer and y is absent for OKP tags; d is
\* present exactly when a private scalar was supplied.
ImportWrapping ==
  (RawOrHexImport /\ LengthsRight) =>
    /\ last.out.calls # <<>>
    /\ LET format == last.args.format
           o == last.args.options
           jwk == last.out.calls[1].jwk
           pub == ExportedRaw(format, o.publicKey)
           half == PrivateLen(o.alg)
       IN /\ jwk.kty = Some(IF o.alg \in OkpTags THEN "OKP" ELSE "EC")
          /\ jwk.crv = Some(TagCurve(o.alg))
          /\ IF o.alg \in OkpTags
             THEN jwk.x = Some(encodeBase64Url(pub)) /\ jwk.y = None
             ELSE /\ jwk.x = Some(encodeBase64Url(SubSeq(pub, 1, half)))
                  /\ jwk.y = Some(encodeBase64Url(SubSeq(pub, half + 1, 2 * half)))
          /\ Has(jwk.d) = Supplied(o.privateKey)
          /\ Supplied(o.privateKey) =>
               jwk.d = Some(encodeBase64Url(ExportedRaw(format, o.privateKey)))

ExpectedUsages(alg, private) ==
  IF alg = "X25519"
  THEN IF private THEN <<"deriveKey">> ELSE <<>>
  ELSE IF private THEN <<"sign">> ELSE <<"verify">>

\* C6: importKey in raw/hex format asks the provider for exactly {sign} with a
\* private scalar and {verify} without ({deriveKey} and {} for X25519); the
\* imported handle has the type, algorithm and usages of the generated key it
\* was exported from; importKeyPair returns a private and a public handle.
UsageNarrowing ==
  /\ (RawOrHexImport /\ LengthsRight) =>
       /\ last.out.calls # <<>>
       /\ last.out.calls[1].usages
            = ExpectedUsages(last.args.options.alg, Supplied(last.args.options.privateKey))
  /\ (RoundTripInput /\ last.op = "importKey" /\ last.args.format \in {"raw", "hex"}) =>
       /\ last.out.ok
       /\ LET from == IF Supplied(last.args.options.privateKey)
                      THEN held.data.privateKey ELSE held.data.publicKey
              got == last.out.value.data
          IN /\ got.type = from.type
             /\ got.algorithm = from.algorithm
             /\ got.usages = from.usages
  /\ (RoundTripInput /\ last.op = "importKeyPair" /\ last.args.format \in {"raw", "hex"}) =>
       /\ last.out.ok
       /\ last.out.value.data.privateKey.type = "private"
       /\ last.out.value.data.publicKey.type = "public"

\* The last call exported one handle of the ECDSA, Ed25519 or X25519 family.
CurveKeyExport ==
  /\ last.op = "exportKey"
  /\ last.args.key.kind = "key"
  /\ last.args.key.data.algorithm.name \in {"ECDSA", "Ed25519", "X25519"}

\* C7: exportKey in raw format returns the decoded d for a private key; for a
\* public key the decoded x followed by the decoded y (ECDSA) or the decoded x
\* (Ed25519, X25519); never y before x, never d in a public export.
ExportLayout ==
  (CurveKeyExport /\ last.args.format = "raw") =>
    LET k == last.args.key.data
        jwk == KeyJwk(k)
        ec == k.algorithm.name = "ECDSA"
    IN /\ last.out.ok = k.extractable
       /\ last.out.ok =>
            /\ last.out.value.kind = "bytes"
            /\ last.out.value.data
                 = (IF k.type = "private" THEN decodeBase64Url(Get(jwk.d))
                    ELSE IF ec
                    THEN decodeBase64Url(Get(jwk.x)) \o decodeBase64Url(Get(jwk.y))
                    ELSE decodeBase64Url(Get(jwk.x)))
            /\ last.out.value.data
                 = (IF k.type = "private" THEN k.d ELSE IF ec THEN k.x \o k.y ELSE k.x)

EcPublicExported ==
  /\ CurveKeyExport
  /\ last.args.format = "raw"
  /\ last.args.key.data.algorithm.name = "ECDSA"
  /\ last.args.key.data.type = "public"
  /\ last.args.key.data.x # last.args.key.data.y
  /\ last.out.ok

LowerHexChars == (48..57) \cup (97..102)
Base64UrlChars == (65..90) \cup (97..122) \cup (48..57) \cup {45, 95}

\* C8: exportKey('hex', k) is the lowercase hexadecimal encoding and
\* exportKey('base64url', k) the unpadded base64url encoding of the bytes that
\* exportKey('raw', k) returns; the hex text has twice as many characters as
\* there are raw bytes (64 for an Ed25519 key).
FormatConsistency ==
  (CurveKeyExport /\ last.args.format \in {"hex", "base64url"}) =>
    LET raw == exportKey("raw", last.args.key)
        t == last.out.value.data
    IN /\ last.out.ok = raw.ok
       /\ last.out.ok =>
            /\ last.out.value.kind = "text"
            /\ IF last.args.format = "hex"
               THEN /\ t = encodeHex(raw.value.data)
                    /\ Len(t) = 2 * Len(raw.value.data)
                    /\ Range(t) \subseteq LowerHexChars
                    /\ decodeHex(t) = raw.value.data
                    /\ last.args.key.data.algorithm.name = "Ed25519" => Len(t) = 64
               ELSE /\ t = encodeBase64Url(raw.value.data)
                    /\ Range(t) \subseteq Base64UrlChars
                    /\ Len(t) = (4 * Len(raw.value.data) + 2) \div 3
                    /\ decodeBase64Url(t) = raw.value.data

Ed25519HexExported ==
  /\ CurveKeyExport
  /\ last.args.format = "hex"
  /\ last.args.key.data.algorithm.name = "Ed25519"
  /\ last.out.ok
  /\ Len(last.out.value.data) = 64

\* C9: for every handle of the RSA family (RSASSA-PKCS1-v1_5, RSA-PSS) and of
\* the AES family, exportKey with format jwk returns the provider's structured
\* key object, and with any other format fails with the
\* unsupported-format-for-algorithm error.
JwkOnlyFamilies ==
  (/\ last.op = "exportKey"
   /\ last.args.key.kind = "key"
   /\ last.args.key.data.algorithm.name \in RsaNames \cup AesNames
   /\ last.args.key.data.extractable)
  => IF last.args.format = "jwk"
     THEN last.out.ok /\ last.out.value = JwkV(KeyJwk(last.args.key.data))
     ELSE ~last.out.ok /\ last.out.err = UnsupportedFormatForAlgorithm

\* C10: jwkAlgorithm's keyUsage is, when key_ops is present (even empty), the
\* entries of key_ops among the eight recognized names in their order, the
\* other entries dropped without an error and use ignored; otherwise
\* [sign, verify] for use = sig, [encrypt, decrypt, wrapKey, unwrapKey] for
\* use = enc; otherwise empty.
UsageInference ==
  last.op = "jwkAlgorithm" =>
    LET jwk == last.args.jwk
        expected ==
          IF Has(jwk.key_ops)
          THEN SelectSeq(Get(jwk.key_ops),
                         LAMBDA op : op \in {"sign", "verify", "encrypt", "decrypt",
                                             "wrapKey", "unwrapKey", "deriveKey",
                                             "deriveBits"})
          ELSE IF jwk.use = Some("sig") THEN <<"sign", "verify">>
          ELSE IF jwk.use = Some("enc")
          THEN <<"encrypt", "decrypt", "wrapKey", "unwrapKey">>
          ELSE <<>>
    IN /\ last.out.ok => last.out.value.keyUsage = expected
       /\ last.out.ok = jwkAlgorithm([jwk EXCEPT !.key_ops = None, !.use = None]).ok

KeyOpsOverUse ==
  /\ last.op = "jwkAlgorithm"
  /\ last.args.jwk.key_ops = Some(<<"derive", "verify">>)
  /\ last.args.jwk.use = Some("enc")
  /\ last.out.ok
  /\ last.out.value.keyUsage = <<"verify">>

(***************************************************************************)
(* jwkAlgorithm: dispatch on kty, crv and alg.                             *)
(***************************************************************************)
\* C11: for kty EC the result is {ECDSA, namedCurve: crv} exactly when crv is
\* P-256, P-384 or P-521; for kty OKP it is {name: crv} exactly when crv is
\* Ed25519 or X25519; a missing or any other crv raises the unsupported-curve
\* error; a kty outside EC, OKP, RSA, oct (an absent one included) raises the
\* unsupported-key-type error; an error returns no result.
KeyTypeDispatch ==
  last.op = "jwkAlgorithm" =>
    LET jwk == last.args.jwk
        out == last.out
    IN /\ jwk.kty = Some("EC") =>
            IF jwk.crv \in {Some("P-256"), Some("P-384"), Some("P-521")}
            THEN out.ok /\ out.value.options = Descriptor("ECDSA", Get(jwk.crv), "", 0)
            ELSE ~out.ok /\ out.err = UnsupportedCurve
       /\ jwk.kty = Some("OKP") =>
            IF jwk.crv \in {Some("Ed25519"), Some("X25519")}
            THEN out.ok /\ out.value.options = Descriptor(Get(jwk.crv), "", "", 0)
            ELSE ~out.ok /\ out.err = UnsupportedCurve
       /\ jwk.kty \notin {Some("EC"), Some("OKP"), Some("RSA"), Some("oct")} =>
            ~out.ok /\ out.err = UnsupportedKeyType
       /\ ~out.ok => out.value = Undefined

OkpCurveUnderEc ==
  /\ last.op = "jwkAlgorithm"
  /\ last.args.jwk.kty = Some("EC")
  /\ last.args.jwk.crv = Some("X25519")
  /\ ~last.out.ok
  /\ last.out.err = UnsupportedCurve

RsaHash(a) ==
  CASE a \in {"RS1", "PS1"} -> "SHA-1"
    [] a \in {"RS256", "PS256"} -> "SHA-256"
    [] a \in {"RS384", "PS384"} -> "SHA-384"
    [] OTHER -> "SHA-512"

\* C12: for kty RSA and alg one of RS1, RS256, RS384, RS512, PS1, PS256, PS384,
\* PS512 the result has hash SHA-{suffix} and name RSASSA-PKCS1-v1_5 for RS*,
\* RSA-PSS for PS*.
RsaInference ==
  (/\ last.op = "jwkAlgorithm"
   /\ last.args.jwk.kty = Some("RSA")
   /\ Has(last.args.jwk.alg)
   /\ Join(Get(last.args.jwk.alg))
        \in {"RS1", "RS256", "RS384", "RS512", "PS1", "PS256", "PS384", "PS512"})
  => /\ last.out.ok
     /\ last.out.value.options
          = Descriptor(IF Head(Get(last.args.jwk.alg)) = "R" THEN "RSASSA-PKCS1-v1_5"
                       ELSE "RSA-PSS",
                       "", RsaHash(Join(Get(last.args.jwk.alg))), 0)

AesAccepted ==
  {"A128GCM", "A192GCM", "A256GCM", "A128CBC", "A192CBC", "A256CBC",
   "A128CTR", "A192CTR", "A256CTR", "A128KW", "A192KW", "A256KW"}

AesExpected(a) ==
  Descriptor(CASE a \in {"A128GCM", "A192GCM", "A256GCM"} -> "AES-GCM"
               [] a \in {"A128CBC", "A192CBC", "A256CBC"} -> "AES-CBC"
               [] a \in {"A128CTR", "A192CTR", "A256CTR"} -> "AES-CTR"
               [] OTHER -> "AES-KW",
             "", "",
             CASE a \in {"A128GCM", "A128CBC", "A128CTR", "A128KW"} -> 128
               [] a \in {"A192GCM", "A192CBC", "A192CTR", "A192KW"} -> 192
               [] OTHER -> 256)

\* C13: for kty oct jwkAlgorithm accepts exactly the twelve alg values
\* A{128|192|256}{GCM|CBC|CTR|KW} and returns {name: AES-mode, length: bits as
\* a number}; {kty: oct, alg: A256GCM} with neither key_ops nor use gives
\* {AES-GCM, 256} and an empty usage list.
AesInference ==
  (last.op = "jwkAlgorithm" /\ last.args.jwk.kty = Some("oct")) =>
    LET jwk == last.args.jwk
        a == IF Has(jwk.alg) THEN Join(Get(jwk.alg)) ELSE ""
    IN /\ last.out.ok = (Has(jwk.alg) /\ a \in AesAccepted)
       /\ last.out.ok => last.out.value.options = AesExpected(a)
       /\ (a = "A256GCM" /\ jwk.key_ops = None /\ jwk.use = None) =>
            /\ last.out.value.options = Descriptor("AES-GCM", "", "", 256)
            /\ last.out.value.keyUsage = <<>>

A256GcmInferred ==
  /\ last.op = "jwkAlgorithm"
  /\ last.args.jwk.kty = Some("oct")
  /\ last.args.jwk.alg = Some(<<"A", "2", "5", "6", "G", "C", "M">>)
  /\ last.args.jwk.key_ops = None
  /\ last.args.jwk.use = None
  /\ last.out.ok
  /\ last.out.value.options.length = 256
  /\ last.out.value.keyUsage = <<>>

\* C14: for kty RSA and kty oct jwkAlgorithm raises the missing-algorithm-hint
\* error exactly when alg is absent, and the unsupported-algorithm error
\* whenever alg is present but not accepted for the key type.
AlgHintErrors ==
  (last.op = "jwkAlgorithm" /\ last.args.jwk.kty \in {Some("RSA"), Some("oct")}) =>
    /\ ~Has(last.args.jwk.alg) => ~last.out.ok /\ last.out.err = MissingAlgorithmHint
    /\ (Has(last.args.jwk.alg) /\ ~last.out.ok) => last.out.err = UnsupportedAlgorithm

\* The five members jwkAlgorithm reads.
Projection(jwk) ==
  [EmptyJwk EXCEPT !.kty = jwk.kty, !.crv = jwk.crv, !.alg = jwk.alg,
                   !.key_ops = jwk.key_ops, !.use = jwk.use]

\* C15: jwkAlgorithm gives equal outcomes on equal structured key objects, its
\* outcome depends on no member other than kty, crv, alg, key_ops and use, and
\* it leaves the object it is given unchanged.
InferenceDeterminism ==
  last.op = "jwkAlgorithm" =>
    /\ last.out = jwkAlgorithm(last.args.jwk)
    /\ last.out = jwkAlgorithm(Projection(last.args.jwk))
    /\ last.after.jwk = last.args.jwk

MaterialIgnored ==
  /\ last.op = "jwkAlgorithm"
  /\ last.args.jwk.kty = Some("oct")
  /\ Has(last.args.jwk.k)
  /\ last.args.jwk.ext = Some(FALSE)
  /\ last.out.ok
  /\ last.out.value.options.length = 256

(***************************************************************************)
(* Exported objects through jwkAlgorithm, generation, import flags, text   *)
(* faults and tags outside the set.                                        *)
(***************************************************************************)
\* The held key a structured key object was exported from.
Original(jwk) ==
  IF held.kind = "pair"
  THEN IF Has(jwk.d) THEN held.data.privateKey ELSE held.data.publicKey
  ELSE held.data

SupportedOriginal(jwk) ==
  /\ Original(jwk).algorithm.name
       \in {"ECDSA", "Ed25519", "X25519"} \cup RsaNames \cup AesNames
  /\ Original(jwk).algorithm.name \in RsaNames =>
       Original(jwk).algorithm.hash \in {"SHA-256", "SHA-384", "SHA-512"}

\* C16: for every structured key object the provider exports from a generated
\* key of a supported algorithm, private or public, jwkAlgorithm succeeds, its
\* descriptor names the algorithm (curve, hash, length) of the original key
\* and its usage list equals key_ops, and the provider's import with them
\* gives a handle of the type and usages of the original.
JwkRoundTrip ==
  /\ (last.op = "jwkAlgorithm" /\ SupportedOriginal(last.args.jwk)) =>
       /\ last.out.ok
       /\ last.out.value.options = Original(last.args.jwk).algorithm
       /\ last.out.value.keyUsage = Get(last.args.jwk.key_ops)
  /\ (last.op = "subtle.importKey" /\ SupportedOriginal(last.args.jwk)) =>
       /\ last.out.ok
       /\ last.out.value.data.type = Original(last.args.jwk).type
       /\ last.out.value.data.usages = Original(last.args.jwk).usages
       /\ last.out.value.data.algorithm = Original(last.args.jwk).algorithm

RsaPssReimported ==
  /\ last.op = "subtle.importKey"
  /\ last.args.algorithm.name = "RSA-PSS"
  /\ last.out.ok
  /\ last.out.value.data.type = "private"
  /\ last.out.value.data.usages = <<"sign">>

\* C17: generateKeyPair(tag) makes one provider generateKey call with
\* keyAlg(tag), the caller's extractable flag (true when omitted) and
\* keyAlgUsage(tag); for X25519 the usages asked hold neither sign nor verify,
\* the private handle has exactly {deriveKey} and the public handle none; for
\* every other tag {sign, verify} is asked, the private handle has {sign} and
\* the public handle {verify}.
GeneratedUsages ==
  (last.op = "generateKeyPair" /\ last.args.alg \in KeyAlgs) =>
    LET alg == last.args.alg
        x == alg = "X25519"
        flag == IF Has(last.args.extractable) THEN Get(last.args.extractable) ELSE TRUE
    IN /\ last.out.calls
            = <<GenerateCall(Descriptor(IF alg \in OkpTags THEN alg ELSE "ECDSA",
                                        IF alg \in OkpTags THEN "" ELSE TagCurve(alg),
                                        "", 0),
                             flag,
                             IF x THEN <<"deriveKey">> ELSE <<"sign", "verify">>)>>
       /\ last.out.calls[1].algorithm = keyAlg(alg).value
       /\ last.out.calls[1].usages = keyAlgUsage(alg)
       /\ x => Range(last.out.calls[1].usages) \cap {"sign", "verify"} = {}
       /\ last.out.ok
       /\ last.out.value.data.privateKey.usages
            = (IF x THEN <<"deriveKey">> ELSE <<"sign">>)
       /\ last.out.value.data.publicKey.usages = (IF x THEN <<>> ELSE <<"verify">>)
       /\ last.out.value.data.privateKey.extractable = flag

X25519Generated ==
  /\ last.op = "generateKeyPair"
  /\ last.args.alg = "X25519"
  /\ last.args.extractable = None
  /\ last.out.ok
  /\ last.out.value.data.privateKey.usages = <<"deriveKey">>
  /\ last.out.value.data.publicKey.usages = <<>>

\* C18: importKey passes the caller's extractable flag to the provider
\* unchanged, and false when the flag is omitted; importKeyPair applies the
\* same flag (false when omitted) to the private and to the public import.
ExtractableOnImport ==
  last.op \in {"importKey", "importKeyPair"} =>
    LET o == last.args.options
        flag == IF Has(o.extractable) THEN Get(o.extractable) ELSE FALSE
    IN /\ \A i \in 1..Len(last.out.calls) : last.out.calls[i].extractable = flag
       /\ (last.op = "importKey" /\ last.out.ok) =>
            /\ Len(last.out.calls) = 1
            /\ last.out.value.data.extractable = flag
       /\ (last.op = "importKeyPair" /\ last.out.ok) =>
            /\ Len(last.out.calls) = 2
            /\ last.out.value.data.privateKey.extractable = flag
            /\ last.out.value.data.publicKey.extractable = flag

PairImportedByDefault ==
  /\ last.op = "importKeyPair"
  /\ last.args.options.extractable = None
  /\ last.out.ok
  /\ last.out.calls[1].extractable = FALSE
  /\ last.out.calls[2].extractable = FALSE

\* C19: importKey in hex or base64url format whose publicKey or privateKey
\* text does not decode fails with the malformed-encoding error, never with a
\* length or an algorithm error, and does not reach the provider.
MalformedEncodingRejected ==
  (/\ last.op = "importKey"
   /\ last.args.format \in {"hex", "base64url"}
   /\ ~Decodable)
  => /\ ~last.out.ok
     /\ last.out.err = MalformedEncoding
     /\ last.out.calls = <<>>

SupportedFamilies == {"ECDSA", "Ed25519", "X25519"} \cup RsaNames \cup AesNames

MaxExtra == 2

BoolV(b) == [kind |-> "boolean", data |-> b]

AlgStrings ==
  KeyAlgs \cup {"Ed448", "p-256", "", "toString", "constructor", "valueOf", "ECDSA"}

InitX25519 ==
  /\ held = Undefined
  /\ last = NoCall
  /\ env \in Envs

IsKeyAlg ==
  /\ last.op = "none"
  /\ \E alg \in AlgStrings :
       LET args == [alg |-> alg]
       IN last' = Call("isKeyAlg", args, Ok(BoolV(isKeyAlg(alg)), <<>>), args)
  /\ UNCHANGED <<held, env>>

ExportKeyRawX25519 ==
  /\ held.kind = "pair"
  /\ LET args == [keys |-> held]
     IN last' = Call("exportKeyRawX25519", args, exportKeyRawX25519(held.data), args)
  /\ UNCHANGED <<held, env>>

DirectExportPkcs8 ==
  /\ held.kind = "pair"
  /\ held.data.privateKey.algorithm.name \in OkpCurves
  /\ LET args == [format |-> "pkcs8", key |-> KeyV(held.data.privateKey)]
     IN last' = Call("subtle.exportKey", args, ProviderExportPkcs8(args.key.data), args)
  /\ UNCHANGED <<held, env>>

\* What a caller can make of a PKCS8 export: one or two bytes changed (the
\* second within the header), or the array cut or padded to a length, with
\* the length byte set to match or left alone.
Resize(der, len) == [i \in 1..len |-> IF i <= Len(der) THEN der[i] ELSE 0]

FixLength(b) == IF Len(b) >= 2 THEN [b EXCEPT ![2] = (Len(b) - 2) % 256] ELSE b

Flip(b, off) ==
  IF off >= 0 /\ off < Len(b) THEN [b EXCEPT ![off + 1] = (b[off + 1] + 1) % 256] ELSE b

Pkcs8Inputs(der) ==
  {Flip(Flip(der, a), b) : a \in (-1)..(Len(der) - 1), b \in (-1)..(Len(der) - 32)}
  \cup {IF fix THEN FixLength(Resize(der, len)) ELSE Resize(der, len) :
          len \in 0..(Len(der) + MaxExtra), fix \in BOOLEAN}

ExtractX25519PrivateKeyRaw ==
  /\ last.op = "subtle.exportKey"
  /\ last.args.format = "pkcs8"
  /\ last.out.ok
  /\ \E pkcs8 \in Pkcs8Inputs(last.out.value.data) :
       LET args == [pkcs8 |-> pkcs8]
       IN last' = Call("extractX25519PrivateKeyRaw", args,
                       extractX25519PrivateKeyRaw(pkcs8), args)
  /\ UNCHANGED <<held, env>>

NextX25519 ==
  \/ GenerateKeyPair
  \/ ExportKey
  \/ ExportKeyRawX25519
  \/ DirectExportPkcs8
  \/ ExtractX25519PrivateKeyRaw
  \/ IsKeyAlg

SpecX25519 == InitX25519 /\ [][NextX25519]_vars

(***************************************************************************)
(* C21.  X25519 fallback: on a provider without JWK export for X25519,     *)
(* exportKey of an X25519 private key in raw or hex obtains the PKCS8      *)
(* export (and nothing else) and returns the scalar the extractor finds in *)
(* it, hex being the encoding of the same 32 bytes; in jwk format it fails *)
(* with the not-implemented error.  Public X25519 keys and keys of other   *)
(* algorithms never ask for the PKCS8 export.                              *)
(***************************************************************************)
NotImplemented == "NotImplemented"

\* exportKey was called on one handle.
SingleExport == last.op = "exportKey" /\ last.args.key.kind = "key"

\* ... an extractable X25519 private key, on a provider without JWK export.
OnFallbackPath ==
  /\ SingleExport
  /\ ~env.jwkX25519
  /\ last.args.key.data.algorithm.name = "X25519"
  /\ last.args.key.data.type = "private"
  /\ last.args.key.data.extractable

X25519Fallback ==
  /\ OnFallbackPath /\ last.args.format \in {"raw", "hex"} =>
       LET v == ProviderExportPkcs8(last.args.key.data)
       IN last.out = Ok(ExportEncode(last.args.format,
                                     extractX25519PrivateKeyRaw(v.value.data).value.data),
                        v.calls)
  /\ OnFallbackPath /\ last.args.format = "jwk" =>
       ~last.out.ok /\ last.out.err = NotImplemented
  /\ SingleExport /\ ~OnFallbackPath =>
       \A i \in 1..Len(last.out.calls) : last.out.calls[i].format # "pkcs8"

(***************************************************************************)
(* C22.  PKCS8 validation: extractX25519PrivateKeyRaw fails whenever byte  *)
(* 0 is not 0x30, byte 1 is not the input length less 2, bytes 2..4 are    *)
(* not 02 01 00, byte 5 is not 0x30, byte 6 is not 5, bytes 7..11 are not  *)
(* the OID 06 03 2b 65 6e, the OCTET STRING tag of the private key is not  *)
(* 0x04 or its length byte is not 32; the checks run in offset order and   *)
(* the first one that fails decides the error.                             *)
(***************************************************************************)
\* The checks of the claim, in offset order: <<fails on p, the error>>.
Pkcs8Checks(p) ==
  << <<At(p, 0) # Some(48), InvalidSequence>>,
     <<At(p, 1) # Some(Len(p) - 2), InvalidSequenceLength>>,
     <<<<At(p, 2), At(p, 3), At(p, 4)>> # <<Some(2), Some(1), Some(0)>>, InvalidVersion>>,
     <<At(p, 5) # Some(48), InvalidAlgorithmSequence>>,
     <<At(p, 6) # Some(5), InvalidAlgorithmLength>>,
     <<\E i \in 0..4 : At(p, 7 + i) # Some(X25519Oid[i + 1]), InvalidOid>>,
     <<At(p, 14) # Some(4), InvalidOctetString>>,
     <<At(p, 15) # Some(32), InvalidPrivateKeyLength>> >>

FailingChecks(p) == {i \in 1..Len(Pkcs8Checks(p)) : Pkcs8Checks(p)[i][1]}

FirstFailing(p) == CHOOSE i \in FailingChecks(p) : \A j \in FailingChecks(p) : i <= j

Pkcs8Validation ==
  last.op = "extractX25519PrivateKeyRaw" =>
    LET p == last.args.pkcs8
    IN IF FailingChecks(p) = {}
       THEN last.out.ok
       ELSE ~last.out.ok /\ last.out.err = Pkcs8Checks(p)[FirstFailing(p)][2]

(***************************************************************************)
(* C27.  PKCS8 byte-exactness: whenever extractX25519PrivateKeyRaw returns *)
(* without error its input is the 16 header bytes                          *)
(* 30 2e 02 01 00 30 05 06 03 2b 65 6e 04 22 04 20 followed by exactly 32  *)
(* bytes, and the result is those 32 bytes.                                *)
(***************************************************************************)
X25519Header == <<48, 46, 2, 1, 0, 48, 5, 6, 3, 43, 101, 110, 4, 34, 4, 32>>

Pkcs8ByteExact ==
  last.op = "extractX25519PrivateKeyRaw" /\ last.out.ok =>
    LET p == last.args.pkcs8
    IN /\ Len(p) = Len(X25519Header) + 32
       /\ SubSeq(p, 1, Len(X25519Header)) = X25519Header
       /\ last.out.value = BytesV(SubSeq(p, Len(X25519Header) + 1, Len(p)))
       /\ Len(last.out.value.data) = 32

(***************************************************************************)
(* C23.  isKeyAlg(s) is true exactly for the eight tags Ed25519, X25519,   *)
(* P-256, ES256, P-384, ES384, P-521, ES512, and false for every other     *)
(* string, the names of built-in object properties and the empty string    *)
(* included, on every runtime.                                             *)
(***************************************************************************)
EightTags == {"Ed25519", "X25519", "P-256", "ES256", "P-384", "ES384", "P-521", "ES512"}

IsKeyAlgExact ==
  last.op = "isKeyAlg" => last.out.value = BoolV(last.args.alg \in EightTags)

(***************************************************************************)
(* The AES session: the caller generates or imports a secret (or holds a   *)
(* pair), exports it with exportSecret, and encrypts and decrypts with an  *)
(* aesEncrypt instance over the key it holds.                              *)
(***************************************************************************)
SecretFormats == {"raw", "hex", "base64url", "jwk"}

SecretLengths == {0, 15, 16, 24, 32, 33}

\* The secret as the caller writes it in a format, intact or damaged.
SecretInput(format, bytes, fault) ==
  LET t == IF format = "hex" THEN encodeHex(bytes) ELSE encodeBase64Url(bytes)
  IN CASE format \in {"raw", "jwk"} -> BytesV(bytes)
       [] fault = "odd" -> TextV(t \o <<t[1]>>)
       [] fault = "badchar" -> TextV([t EXCEPT ![1] = 42])
       [] OTHER -> TextV(t)

SecretInputs ==
  {<<f, SecretInput(f, Buf(n, seed, 4), "exact")>> :
     f \in SecretFormats, n \in SecretLengths, seed \in Seeds}
  \cup {<<f, SecretInput(f, Buf(n, seed, 4), fault)>> :
          f \in {"hex", "base64url"}, n \in SecretLengths \ {0}, seed \in Seeds,
          fault \in {"odd", "badchar"}}
  \cup {<<"hex", Undefined>>, <<"jwk", TextV(encodeHex(Buf(32, 1, 4)))>>}

ImportSecret ==
  /\ held = Undefined
  /\ last.op = "none"
  /\ \E name \in {"AES-GCM", "AES-KW"}, length \in AesLengths, extractable \in Flags,
        i \in SecretInputs :
       LET options == AesOptions(name, length, extractable)
           out == importSecret(i[1], options, i[2])
       IN /\ last' = Call("importSecret",
                          [format |-> i[1], options |-> options, secret |-> i[2]], out,
                          [format |-> i[1], options |-> aesOptionsAfter(options),
                           secret |-> i[2]])
          /\ held' = IF out.ok THEN out.value ELSE held
          /\ UNCHANGED env

HeldKeys == {k \in KeysOf(held) : k.kind = "key"}

ExportSecret ==
  /\ last.op \in {"generateKeyPair", "generateAesSecret", "importSecret"}
  /\ \E format \in SecretFormats, key \in HeldKeys :
       LET args == [format |-> format, key |-> key]
       IN last' = Call("exportSecret", args, exportSecret(format, key.data), args)
  /\ UNCHANGED <<held, env>>

ByteInputs == {BytesV(<<>>), BytesV(<<1, 2, 3, 4>>)}

\* 'hi', 'é', '€', a byte order mark before 'h', a lone surrogate, a pair
TextInputs ==
  {StringV(<<104, 105>>), StringV(<<233>>), StringV(<<8364>>), StringV(<<65279, 104>>),
   StringV(<<55357>>), StringV(<<55357, 56832>>)}

JsonInputs == {JString(<<49, 50, 51, 52>>), JString(<<34>>), JNull, JNumber(7), JNaN, JUndefined}

EncryptOps == {"encrypt", "encryptText", "encryptJson"}
DecryptOps == {"decrypt", "decryptText", "decryptJson"}

EncryptInputs(op) ==
  CASE op = "encrypt" -> ByteInputs
    [] op = "encryptText" -> TextInputs
    [] OTHER -> JsonInputs

AesEncrypt ==
  /\ last.op \in {"generateKeyPair", "generateAesSecret", "importSecret"}
  /\ \E key \in {k \in HeldKeys : k.data.type # "public"}, codec \in Codecs,
        op \in EncryptOps, seed \in Seeds :
       \E input \in EncryptInputs(op) :
         LET args == [key |-> key, codec |-> codec, input |-> input, seed |-> seed]
             out == CASE op = "encrypt" -> encrypt(key.data, codec, input.data, seed)
                      [] op = "encryptText" -> encryptText(key.data, codec, input.data, seed)
                      [] OTHER -> encryptJson(key.data, codec, input, seed)
         IN last' = Call(op, args, out, args)
  /\ UNCHANGED <<held, env>>

\* The same instance decrypts what it has just encrypted.
AesDecrypt ==
  /\ last.op \in EncryptOps
  /\ last.out.ok
  /\ LET key == last.args.key
         codec == last.args.codec
         args == [key |-> key, codec |-> codec, encrypted |-> last.out.value,
                  input |-> last.args.input, sent |-> last.out.calls[1]]
     IN last' = CASE last.op = "encrypt" ->
                       Call("decrypt", args, decrypt(key.data, codec, args.encrypted), args)
                  [] last.op = "encryptText" ->
                       Call("decryptText", args,
                            decryptText(key.data, codec, args.encrypted), args)
                  [] OTHER ->
                       Call("decryptJson", args,
                            decryptJson(key.data, codec, args.encrypted), args)
  /\ UNCHANGED <<held, env>>

NextAes ==
  \/ GenerateAesSecret
  \/ GenerateKeyPair
  \/ ImportSecret
  \/ ExportSecret
  \/ AesEncrypt
  \/ AesDecrypt

SpecAes == Init /\ [][NextAes]_vars

(***************************************************************************)
(* C24.  AES extractable default: generateAesSecret and importSecret both  *)
(* pass extractable = true to the provider when the option is absent, and  *)
(* the caller's value otherwise.                                           *)
(***************************************************************************)
AesExtractableDefault ==
  last.op \in {"generateAesSecret", "importSecret"} /\ Len(last.out.calls) > 0 =>
    last.out.calls[1].extractable =
      (IF Has(last.args.options.extractable) THEN Get(last.args.options.extractable)
       ELSE TRUE)

(***************************************************************************)
(* C25.  AES secret length: importSecret decodes the secret by its format  *)
(* (raw, hex, base64url) and calls the provider, once and with the decoded *)
(* bytes, only when their number is options.length / 8 (256 bits when      *)
(* length is absent); otherwise it fails with the length error, calls      *)
(* nothing and no key is created.  exportSecret('raw') of an extractable   *)
(* imported secret returns the imported bytes, options.length / 8 of them, *)
(* and exportSecret fails on a key whose type is not 'secret'.             *)
(***************************************************************************)
SecretDecodable(format, secret) ==
  CASE format = "raw" -> secret.kind = "bytes"
    [] format = "hex" -> secret.kind = "text" /\ HexValid(secret.data)
    [] OTHER -> secret.kind = "text" /\ B64Valid(secret.data)

SecretBytes(format, secret) ==
  CASE format = "raw" -> secret.data
    [] format = "hex" -> decodeHex(secret.data)
    [] OTHER -> decodeBase64Url(secret.data)

WantedBytes(options) ==
  (IF Has(options.length) THEN Get(options.length) ELSE 256) \div 8

SecretLengthChecked ==
  /\ last.op = "importSecret" /\ last.args.format \in RawFormats =>
       LET format == last.args.format
           secret == last.args.secret
           want == WantedBytes(last.args.options)
       IN /\ SecretDecodable(format, secret) /\ Len(SecretBytes(format, secret)) = want =>
               /\ last.out.ok
               /\ Len(last.out.calls) = 1
               /\ last.out.calls[1].keyData = SecretBytes(format, secret)
               /\ last.out.value.data.type = "secret"
               /\ last.out.value.data.k = SecretBytes(format, secret)
               /\ held = last.out.value
          /\ SecretDecodable(format, secret) /\ Len(SecretBytes(format, secret)) # want =>
               last.out = Fail(InvalidKeyLength, <<>>)
          /\ ~SecretDecodable(format, secret) => ~last.out.ok /\ last.out.calls = <<>>
          /\ ~last.out.ok => last.out.value = Undefined /\ held = Undefined
  /\ last.op = "exportSecret" /\ last.args.key.data.type # "secret" =>
       last.out = Fail(KeyTypeNotSecret, <<>>)

ExportReturnsImported ==
  /\ last.op = "importSecret"
  /\ last.args.format \in RawFormats
  /\ last.out.ok
  /\ last.out.value.data.extractable
  /\ last'.op = "exportSecret"
  /\ last'.args.format = "raw"
  /\ last'.args.key = last.out.value
  => /\ last'.out.ok
     /\ last'.out.value = BytesV(SecretBytes(last.args.format, last.args.secret))
     /\ Len(last'.out.value.data) = WantedBytes(last.args.options)

AesSecretLength == []SecretLengthChecked /\ [][ExportReturnsImported]_vars

\* a 128-bit secret written in base64url has been imported
Secret128Imported ==
  /\ last.op = "importSecret"
  /\ last.args.format = "base64url"
  /\ last.args.options.length = Some(128)
  /\ last.out.ok
  /\ Len(last.out.value.data.k) = 16

(***************************************************************************)
(* C26.  AES encrypt round-trip: for every codec, every AES-GCM key and    *)
(* every input, decrypt(encrypt(data)) returns data, decryptText(          *)
(* encryptText(s)) returns s and decryptJson(encryptJson(v)) returns v;    *)
(* what encrypt returns decodes to the 12-byte IV followed by the          *)
(* ciphertext, and decrypt hands the provider those 12 bytes as the IV and *)
(* the rest as the ciphertext.                                             *)
(***************************************************************************)
AesRoundTrip ==
  /\ last.op \in EncryptOps /\ GcmUsable(last.args.key.data, "encrypt") =>
       /\ last.out.ok
       /\ LET buffer == CodecDecode(last.args.codec, last.out.value)
              sent == last.out.calls[1]
          IN /\ buffer.ok
             /\ Len(sent.iv) = 12
             /\ SubSeq(buffer.value, 1, 12) = sent.iv
             /\ SubSeq(buffer.value, 13, Len(buffer.value))
                  = ProviderEncrypt(sent.iv, sent.key, sent.data).value.data
  /\ last.op \in DecryptOps =>
       /\ last.out.ok
       /\ last.out.value = last.args.input
       /\ last.out.calls[1].iv = last.args.sent.iv
       /\ last.out.calls[1].data
            = ProviderEncrypt(last.args.sent.iv, last.args.sent.key,
                              last.args.sent.data).value.data

(***************************************************************************)
(* C30.  Inputs are not modified: importKey, importSecret and              *)
(* generateAesSecret leave the options object of the caller as it was:     *)
(* after the call every member has the value it had before, and a member   *)
(* the caller omitted (extractable, length) is still absent.               *)
(***************************************************************************)
OptionsUntouched ==
  last.op \in {"importKey", "importSecret", "generateAesSecret"} =>
    last.after.options = last.args.options

(***************************************************************************)
(* C28.  Pair export and import ordering: exportKey of a pair returns      *)
(* {privateKey, publicKey} whose members are what exportKey returns for    *)
(* each handle alone in the same format; the private key is exported       *)
(* first, the public key second, and when the private export fails the     *)
(* public export is not attempted and the error comes out with no partial  *)
(* result.  importKeyPair imports the private handle first and does not    *)
(* attempt the public import when that fails.                              *)
(***************************************************************************)
PairOrdering ==
  /\ last.op = "exportKey" /\ last.args.key.kind = "pair" =>
       LET format == last.args.format
           pair == last.args.key.data
           priv == exportKey(format, KeyV(pair.privateKey))
           pub == exportKey(format, KeyV(pair.publicKey))
       IN /\ last.out.ok => /\ priv.ok /\ pub.ok
                            /\ last.out.value = ExportedPairV(priv.value, pub.value)
          /\ priv.ok /\ pub.ok => last.out.ok
          /\ ~priv.ok => /\ last.out = priv
                         /\ \A i \in 1..Len(last.out.calls) :
                              last.out.calls[i].key = pair.privateKey
          /\ priv.ok => last.out.calls = priv.calls \o pub.calls
          /\ priv.ok /\ ~pub.ok => ~last.out.ok /\ last.out.err = pub.err
          /\ Len(last.out.calls) > 0 => last.out.calls[1].key = pair.privateKey
          /\ Len(last.out.calls) > 1 => last.out.calls[2].key = pair.publicKey
  /\ last.op = "importKeyPair" =>
       LET format == last.args.format
           first == importKey(format, last.args.options)
           second == importKey(format, [last.args.options EXCEPT !.privateKey = Undefined])
       IN /\ ~first.ok => last.out = first
          /\ first.ok => last.out.calls = first.calls \o second.calls
          /\ last.out.ok => /\ first.ok /\ second.ok
                            /\ last.out.value = PairV(first.value.data, second.value.data)
          /\ Len(last.out.calls) > 0 =>
               last.out.calls[1].jwk.d = first.calls[1].jwk.d
          /\ Len(last.out.calls) > 1 => last.out.calls[2].jwk.d = None

\* the private key of a pair could not be exported: one call, no result
PrivateExportFailed ==
  /\ last.op = "exportKey"
  /\ last.args.key.kind = "pair"
  /\ ~last.args.key.data.privateKey.extractable
  /\ ~last.out.ok
  /\ Len(last.out.calls) = 1
  /\ last.out.value = Undefined

(***************************************************************************)
(* C29.  No retries: exportKey calls the provider's export at most once    *)
(* per key handle it processes, importKey calls the provider's import at   *)
(* most once, generateKeyPair (of one of the eight tags) calls the         *)
(* provider's generateKey exactly once; when a provider call fails the     *)
(* operation ends with the provider's error and no further call, and an    *)
(* exportKey request refused for its format on an RSA or AES handle makes  *)
(* no provider call.                                                       *)
(***************************************************************************)
\* What the provider answered to a call the library made.
Answer(c) ==
  CASE c.fn = "generateKey" ->
         ProviderGenerateKey(c.algorithm, c.extractable, c.usages, last.args.seed)
    [] c.fn = "exportKey" -> ProviderExportJwk(c.key)
    [] OTHER -> ProviderImportJwk(c.jwk, c.algorithm, c.extractable, c.usages)

=============================================================================
